---------------------------- MODULE Spec2Model ----------------------------
(***************************************************************************)
(* Verification model of the QA generation pipeline                        *)
(* (src/src/qa_system): the reply-parsing ladder, the per-slide and        *)
(* comprehensive generators, the difficulty distribution, answer           *)
(* submission and the lecture background task.                             *)
(*                                                                         *)
(* Each subsystem has its own variables and its own specification; a       *)
(* specification keeps the variables of the other subsystems at their      *)
(* idle value.                                                             *)
(*                                                                         *)
(* Text is modelled as a sequence of tokens: "F" is a code fence (three    *)
(* backticks), "J" is the word json (a fence tag when it directly follows  *)
(* a fence, ordinary text elsewhere), "{" and "}" are braces and "_" is a  *)
(* whitespace character.                                                   *)
(***************************************************************************)
EXTENDS Integers, Sequences, FiniteSets, TLC

VARIABLES
    \* _extract_json_from_response applied to one reply
    response_content, json_content, extract_pc,
    \* generate_questions_for_slide: the distribution asked for, the units
    \* still to run, the questions collected, the labels of the replies seen
    gen_dist, gen_units, gen_questions, gen_log, gen_pc,
    \* generate_comprehensive_qa: its arguments, the eligible slides, the
    \* target counts, the shared remaining counts, what each slide was asked
    \* for, the sets returned so far (by slide number), the questions of the
    \* last set, and whether every LLM call so far succeeded
    qa_input, qa_valid, qa_target, difficulty_counts, qa_plan, qa_sets,
    qa_last_questions, qa_all_ok, qa_pc,
    \* calculate_difficulty_distribution applied to one input
    dist_input, distribution, dist_counts, dist_pc,
    \* submit_answer: the statistics columns of the questions table, the
    \* committed rows of student_responses, the last request and its outcome
    questions_db, responses_db, last_request,
    \* a lecture: its committed processing_status and the statuses committed
    \* so far, the position of its background task, the extracted slides, the
    \* LLM replies of its batch, the Question rows of the session and of the
    \* table, the failures met, and whether settings.google_api_key is set
    lecture_status, status_history, lecture_pc, lecture_slides, lecture_replies,
    pending_questions, lecture_questions, lecture_failures, google_api_key,
    \* _parse_response applied to one reply
    parse_reply, parse_result, parse_pc,
    \* _has_sufficient_content applied to one slide-content record, and
    \* whether the record was made by SlideContent.to_dict
    gate_record, gate_derived, gate_result, gate_pc,
    \* generate_questions_for_multiple_slides: its slides, the position of
    \* its loop, the LLM calls made (slide number and tier) and the sets
    \* collected (slide number and number of questions)
    batch_slides, batch_i, batch_calls, batch_sets, batch_pc,
    \* _evaluate_answer applied to one question and one response
    eval_question, eval_response, eval_result, eval_pc,
    \* get_student_progress / _analyze_learning_trends: the student's responses
    \* as the query returns them, the trend result, the step
    trend_responses, trend_result, trend_pc,
    \* get_learning_recommendations: the question rows, the request's filters
    \* and what the student query finds, the reply, the step
    rec_questions, rec_request, rec_reply, rec_pc,
    \* validate_difficulty_balance: the questions given, the report, the step
    balance_questions, balance_report, balance_pc,
    \* upload_lecture / process_lecture_content / delete_lecture on shared
    \* files: the upload folder, the lecture rows with their tasks, the uploads
    \* received so far
    upload_folder, upload_lectures, upload_count

extractVars == <<response_content, json_content, extract_pc>>

genVars == <<gen_dist, gen_units, gen_questions, gen_log, gen_pc>>

qaVars == <<qa_input, qa_valid, qa_target, difficulty_counts, qa_plan, qa_sets,
            qa_last_questions, qa_all_ok, qa_pc>>

distVars == <<dist_input, distribution, dist_counts, dist_pc>>

answerVars == <<questions_db, responses_db, last_request>>

lectureVars == <<lecture_status, status_history, lecture_pc, lecture_slides,
                 lecture_replies, pending_questions, lecture_questions,
                 lecture_failures, google_api_key>>

parseVars == <<parse_reply, parse_result, parse_pc>>

gateVars == <<gate_record, gate_derived, gate_result, gate_pc>>

batchVars == <<batch_slides, batch_i, batch_calls, batch_sets, batch_pc>>

evalVars == <<eval_question, eval_response, eval_result, eval_pc>>

trendVars == <<trend_responses, trend_result, trend_pc>>

recVars == <<rec_questions, rec_request, rec_reply, rec_pc>>

balanceVars == <<balance_questions, balance_report, balance_pc>>

uploadVars == <<upload_folder, upload_lectures, upload_count>>

vars == <<extractVars, genVars, qaVars, distVars, answerVars, lectureVars,
          parseVars, gateVars, batchVars, evalVars,
         trendVars,
         recVars,
         balanceVars,
         uploadVars>>

\* what each subsystem leaves alone
notExtract == <<genVars, qaVars, distVars, answerVars, lectureVars,
                parseVars, gateVars, batchVars, evalVars,
    trendVars,
    recVars,
    balanceVars,
    uploadVars>>

notGen == <<extractVars, qaVars, distVars, answerVars, lectureVars,
            parseVars, gateVars, batchVars, evalVars,
    trendVars,
    recVars,
    balanceVars,
    uploadVars>>

notQA == <<extractVars, genVars, distVars, answerVars, lectureVars,
           parseVars, gateVars, batchVars, evalVars,
    trendVars,
    recVars,
    balanceVars,
    uploadVars>>

notDist == <<extractVars, genVars, qaVars, answerVars, lectureVars,
             parseVars, gateVars, batchVars, evalVars,
    trendVars,
    recVars,
    balanceVars,
    uploadVars>>

notAnswer == <<extractVars, genVars, qaVars, distVars, lectureVars,
               parseVars, gateVars, batchVars, evalVars,
    trendVars,
    recVars,
    balanceVars,
    uploadVars>>

notLecture == <<extractVars, genVars, qaVars, distVars, answerVars,
                parseVars, gateVars, batchVars, evalVars,
    trendVars,
    recVars,
    balanceVars,
    uploadVars>>

notParse == <<extractVars, genVars, qaVars, distVars, answerVars,
              lectureVars, gateVars, batchVars, evalVars,
    trendVars,
    recVars,
    balanceVars,
    uploadVars>>

notGate == <<extractVars, genVars, qaVars, distVars, answerVars,
             lectureVars, parseVars, batchVars, evalVars,
    trendVars,
    recVars,
    balanceVars,
    uploadVars>>

notBatch == <<extractVars, genVars, qaVars, distVars, answerVars,
              lectureVars, parseVars, gateVars, evalVars,
    trendVars,
    recVars,
    balanceVars,
    uploadVars>>

notEval == <<extractVars, genVars, qaVars, distVars, answerVars,
             lectureVars, parseVars, gateVars, batchVars,
    trendVars,
    recVars,
    balanceVars,
    uploadVars>>

notTrend == <<extractVars, genVars, qaVars, distVars, answerVars, lectureVars, parseVars, gateVars, batchVars, evalVars,
    recVars,
    balanceVars,
    uploadVars>>

notRec == <<extractVars, genVars, qaVars, distVars, answerVars, lectureVars, parseVars, gateVars, batchVars, evalVars, trendVars,
    balanceVars,
    uploadVars>>

notBalance == <<extractVars, genVars, qaVars, distVars, answerVars, lectureVars, parseVars, gateVars, batchVars, evalVars, trendVars, recVars,
    uploadVars>>

notUpload == <<extractVars, genVars, qaVars, distVars, answerVars, lectureVars, parseVars, gateVars, batchVars, evalVars, trendVars, recVars, balanceVars>>

(***************************************************************************)
(* Bounds of the model                                                     *)
(***************************************************************************)
\* longest LLM reply, in tokens
MaxReplyLen == 6

\* most (slide, tier) units asked of generate_questions_for_slide in one call
MaxUnits == 3

\* longest deck and largest total_questions given to generate_comprehensive_qa
MaxQASlides == 7

MaxTotalQuestions == 10

\* largest total given to calculate_difficulty_distribution
MaxDistTotal == 20

\* most rows of student_responses
MaxResponses == 4

\* most slides of an uploaded lecture
MaxLectureSlides == 3

\* longest raw reply given to the brace scan, in tokens
MaxBraceLen == 7

\* longest text and most bullet points of a record given to the content gate
MaxTextLen == 51

MaxBullets == 2

\* longest deck and largest total given to both generators side by side
MaxGatedSlides == 3

MaxGatedQuestions == 4

\* longest response given to _evaluate_answer, in characters, and most
\* keywords of a question
MaxAnswerLen == 3

MaxKeywords == 10

MaxTrendResponses == 22

MaxRecQuestions == 3

MaxBalanceQuestions == 5

\* uploads received in one run
MaxUploads == 3

(***************************************************************************)
(* Optional values: Python's None and a present value                      *)
(***************************************************************************)
NoneStr == [some |-> FALSE, val |-> <<>>]

SomeStr(s) == [some |-> TRUE, val |-> s]

(***************************************************************************)
(* Idle values: a subsystem that a specification does not exercise         *)
(***************************************************************************)
ExtractIdle ==
    /\ response_content = <<>>
    /\ json_content = NoneStr
    /\ extract_pc = "idle"

GenIdle ==
    /\ gen_dist = [some |-> FALSE, val |-> <<>>]
    /\ gen_units = <<>>
    /\ gen_questions = <<>>
    /\ gen_log = <<>>
    /\ gen_pc = "idle"

QAIdle ==
    /\ qa_input = [slides |-> <<>>, total_questions |-> 0,
                   difficulty_ratio |-> [easy |-> 0, medium |-> 0, hard |-> 0]]
    /\ qa_valid = <<>>
    /\ qa_target = [easy |-> 0, medium |-> 0, hard |-> 0]
    /\ difficulty_counts = [easy |-> 0, medium |-> 0, hard |-> 0]
    /\ qa_plan = <<>>
    /\ qa_sets = <<>>
    /\ qa_last_questions = <<>>
    /\ qa_all_ok = TRUE
    /\ qa_pc = "idle"

DistIdle ==
    /\ dist_input = [total_questions |-> 0,
                     target_distribution |->
                         [some |-> FALSE, val |-> [easy |-> 0, medium |-> 0, hard |-> 0]]]
    /\ distribution = [easy |-> 0, medium |-> 0, hard |-> 0]
    /\ dist_counts = [easy |-> 0, medium |-> 0, hard |-> 0]
    /\ dist_pc = "idle"

AnswerIdle ==
    /\ questions_db = <<>>
    /\ responses_db = <<>>
    /\ last_request = [question_id |-> 0, response_text |-> <<>>, status |-> "idle",
                       is_correct |-> FALSE, stored |-> FALSE]

LectureIdle ==
    /\ lecture_status = "idle"
    /\ status_history = <<>>
    /\ lecture_pc = "idle"
    /\ lecture_slides = <<>>
    /\ lecture_replies = <<>>
    /\ pending_questions = <<>>
    /\ lecture_questions = <<>>
    /\ lecture_failures = {}
    /\ google_api_key = FALSE

ParseIdle ==
    /\ parse_reply = <<>>
    /\ parse_result = <<>>
    /\ parse_pc = "idle"

GateIdle ==
    /\ gate_record = <<>>
    /\ gate_derived = FALSE
    /\ gate_result = FALSE
    /\ gate_pc = "idle"

BatchIdle ==
    /\ batch_slides = <<>>
    /\ batch_i = 0
    /\ batch_calls = <<>>
    /\ batch_sets = <<>>
    /\ batch_pc = "idle"

EvalIdle ==
    /\ eval_question = <<>>
    /\ eval_response = <<>>
    /\ eval_result = FALSE
    /\ eval_pc = "idle"

TrendIdle ==
    /\ trend_responses = <<>>
    /\ trend_result = [kind |-> "none", performance_trend |-> "",
                       recent_correct_rates |-> <<>>,
                       average_response_time |-> [some |-> FALSE, val |-> 0]]
    /\ trend_pc = "idle"

RecIdle ==
    /\ rec_questions = <<>>
    /\ rec_request = [lecture_id |-> 0, student_id |-> 0, weak_difficulties |-> FALSE]
    /\ rec_reply = [status |-> "none", recommendations |-> <<>>]
    /\ rec_pc = "idle"

BalanceIdle ==
    /\ balance_questions = <<>>
    /\ balance_report = [total_questions |-> 0,
                         difficulty_counts |-> [easy |-> 0, medium |-> 0, hard |-> 0],
                         balance_score |-> [num |-> 0, den |-> 1],
                         is_balanced |-> FALSE]
    /\ balance_pc = "idle"

UploadIdle ==
    /\ upload_folder = <<>>
    /\ upload_lectures = <<>>
    /\ upload_count = 0

(***************************************************************************)
(* String primitives (str.find, str.strip, startswith, endswith)           *)
(***************************************************************************)
Tokens == {"F", "J", "{", "}", "_"}

\* str.find(tok, start): the least index >= start holding tok, 0 for -1
RECURSIVE Find(_, _, _)
Find(s, tok, start) ==
    IF start > Len(s) THEN 0
    ELSE IF s[start] = tok THEN start
    ELSE Find(s, tok, start + 1)

\* str.find of a fence directly followed by the json tag, 0 for -1
RECURSIVE FindTagged(_, _)
FindTagged(s, start) ==
    IF start + 1 > Len(s) THEN 0
    ELSE IF s[start] = "F" /\ s[start + 1] = "J" THEN start
    ELSE FindTagged(s, start + 1)

\* s[a:b] in 1-based inclusive positions a..b (empty when a > b)
Slice(s, a, b) == IF a > b THEN <<>> ELSE SubSeq(s, a, b)

RECURSIVE LStrip(_)
LStrip(s) == IF s # <<>> /\ Head(s) = "_" THEN LStrip(Tail(s)) ELSE s

RECURSIVE RStrip(_)
RStrip(s) ==
    IF s # <<>> /\ s[Len(s)] = "_" THEN RStrip(SubSeq(s, 1, Len(s) - 1)) ELSE s

Strip(s) == RStrip(LStrip(s))

StartsWith(s, tok) == s # <<>> /\ s[1] = tok

EndsWith(s, tok) == s # <<>> /\ s[Len(s)] = tok

(***************************************************************************)
(* QAGenerator._extract_json_from_response                                 *)
(***************************************************************************)
\* Pattern 1: the interior of a fence tagged json, up to the next fence
Pattern1(s) ==
    LET tag == FindTagged(s, 1)
        start == tag + 2
        end == Find(s, "F", start)
    IN  IF tag # 0 /\ end # 0
        THEN SomeStr(Strip(Slice(s, start, end - 1)))
        ELSE NoneStr

\* Pattern 2: the interior of the first fenced block, if it looks like JSON
Pattern2(s) ==
    LET fence == Find(s, "F", 1)
        start == fence + 1
        end == Find(s, "F", start)
        potential_json == Strip(Slice(s, start, end - 1))
    IN  IF fence # 0 /\ end # 0
           /\ StartsWith(potential_json, "{") /\ EndsWith(potential_json, "}")
        THEN SomeStr(potential_json)
        ELSE NoneStr

\* a plausible slip: the scan stops at the first closing brace
MatchBraceFirstClose(s, i, brace_count) == Find(s, "}", i)

\* the loop of pattern 3: the index at which brace_count returns to 0
RECURSIVE MatchBrace(_, _, _)
MatchBrace(s, i, brace_count) ==
    IF i > Len(s) THEN 0
    ELSE IF s[i] = "{" THEN MatchBrace(s, i + 1, brace_count + 1)
    ELSE IF s[i] = "}"
         THEN IF brace_count - 1 = 0 THEN i
              ELSE MatchBrace(s, i + 1, brace_count - 1)
    ELSE MatchBrace(s, i + 1, brace_count)

\* Pattern 3: from the first '{' to the '}' that balances it
Pattern3(s) ==
    LET start_brace == Find(s, "{", 1)
        close == IF start_brace = 0 THEN 0 ELSE MatchBrace(s, start_brace, 0)
    IN  IF start_brace # 0 /\ close # 0
        THEN SomeStr(Slice(s, start_brace, close))
        ELSE NoneStr

\* Pattern 4: the whole trimmed reply
Pattern4(s) ==
    LET content == Strip(s)
    IN  IF StartsWith(content, "{") /\ EndsWith(content, "}")
        THEN SomeStr(content)
        ELSE NoneStr

\* a plausible slip: the brace scan is tried before the fenced blocks
ExtractBraceScanFirst(s) ==
    IF Pattern3(s).some THEN Pattern3(s)
    ELSE IF Pattern1(s).some THEN Pattern1(s)
    ELSE IF Pattern2(s).some THEN Pattern2(s)
    ELSE Pattern4(s)

_extract_json_from_response(s) ==
    IF Pattern1(s).some THEN Pattern1(s)
    ELSE IF Pattern2(s).some THEN Pattern2(s)
    ELSE IF Pattern3(s).some THEN Pattern3(s)
    ELSE Pattern4(s)

(***************************************************************************)
(* The extraction ladder applied to every bounded reply                    *)
(***************************************************************************)
Replies == UNION {[1..n -> Tokens] : n \in 0..MaxReplyLen}

ExtractStart ==
    /\ response_content \in Replies
    /\ json_content = NoneStr
    /\ extract_pc = "call"

ExtractJson ==
    /\ extract_pc = "call"
    /\ json_content' = _extract_json_from_response(response_content)
    /\ extract_pc' = "returned"
    /\ UNCHANGED response_content
    /\ UNCHANGED notExtract

(***************************************************************************)
(* C2: the extraction returns the result of the lowest-numbered strategy   *)
(* whose structural condition holds on the raw reply: (1) a json-tagged    *)
(* fence with a closing fence, (2) the first fenced block when its trimmed *)
(* interior starts with '{' and ends with '}', (3) the span from the first *)
(* '{' to the '}' balancing it, (4) the whole trimmed reply when it starts *)
(* with '{' and ends with '}'; otherwise nothing.  The strategies are      *)
(* stated here by position sets, independently of the scanning code.       *)
(***************************************************************************)
MinOf(S) == CHOOSE x \in S : \A y \in S : x <= y

MaxOf(S) == CHOOSE x \in S : \A y \in S : x >= y

PositionsOf(s, tok) == {k \in 1..Len(s) : s[k] = tok}

TaggedFences(s) == {k \in 1..(Len(s) - 1) : s[k] = "F" /\ s[k + 1] = "J"}

\* the text between the first and the last non-blank position
Trimmed(s) ==
    LET solid == {k \in 1..Len(s) : s[k] # "_"}
    IN  IF solid = {} THEN <<>> ELSE SubSeq(s, MinOf(solid), MaxOf(solid))

LooksLikeObject(s) == Len(s) >= 1 /\ s[1] = "{" /\ s[Len(s)] = "}"

Between(s, a, b) == [k \in 1..(b - a - 1) |-> s[a + k]]

Strategy1Matches(s) ==
    \E t \in TaggedFences(s) : \E e \in PositionsOf(s, "F") : e > t + 1

Strategy1Result(s) ==
    LET t == MinOf(TaggedFences(s))
        e == MinOf({k \in PositionsOf(s, "F") : k > t + 1})
    IN  Trimmed(Between(s, t + 1, e))

Strategy2Matches(s) ==
    /\ Cardinality(PositionsOf(s, "F")) >= 2
    /\ LET f == MinOf(PositionsOf(s, "F"))
           e == MinOf(PositionsOf(s, "F") \ {f})
       IN  LooksLikeObject(Trimmed(Between(s, f, e)))

Strategy2Result(s) ==
    LET f == MinOf(PositionsOf(s, "F"))
        e == MinOf(PositionsOf(s, "F") \ {f})
    IN  Trimmed(Between(s, f, e))

\* braces opened minus braces closed in positions a..b
Depth(s, a, b) ==
    Cardinality({k \in a..b : s[k] = "{"}) - Cardinality({k \in a..b : s[k] = "}"})

BalancePoints(s) ==
    IF PositionsOf(s, "{") = {} THEN {}
    ELSE LET b == MinOf(PositionsOf(s, "{"))
         IN  {k \in b..Len(s) : Depth(s, b, k) = 0}

Strategy3Matches(s) == BalancePoints(s) # {}

Strategy3Result(s) ==
    SubSeq(s, MinOf(PositionsOf(s, "{")), MinOf(BalancePoints(s)))

Strategy4Matches(s) == LooksLikeObject(Trimmed(s))

LadderResult(s) ==
    IF Strategy1Matches(s) THEN SomeStr(Strategy1Result(s))
    ELSE IF Strategy2Matches(s) THEN SomeStr(Strategy2Result(s))
    ELSE IF Strategy3Matches(s) THEN SomeStr(Strategy3Result(s))
    ELSE IF Strategy4Matches(s) THEN SomeStr(Trimmed(s))
    ELSE NoneStr

C2_ExtractionLadder ==
    extract_pc = "returned" => json_content = LadderResult(response_content)

\* a reply on which strategies 1 and 3 both match with different spans, and
\* the tagged fence's interior is what was returned
C2_Witness ==
    /\ extract_pc = "returned"
    /\ Strategy1Matches(response_content)
    /\ Strategy3Matches(response_content)
    /\ Strategy1Result(response_content) # Strategy3Result(response_content)
    /\ Strategy1Result(response_content) # <<>>
    /\ json_content = SomeStr(Strategy1Result(response_content))

(***************************************************************************)
(* The LLM capability: what one llm.invoke call can produce.  A reply is   *)
(* either an invocation error or a text; the text carries a payload whose  *)
(* properties (does json.loads accept it, which fields it has, which       *)
(* values) are those of the object the extracted span denotes.  "label" is *)
(* the outcome class the reply was built to exercise.                      *)
(***************************************************************************)
Tiers == {"easy", "medium", "hard"}

TierOrder == <<"easy", "medium", "hard">>

QuestionTypes == {"multiple_choice", "single_choice", "essay", "short_answer"}

RequiredFields ==
    {"question", "question_type", "difficulty", "correct_answer", "explanation"}

\* what json.loads makes of the extracted span: whether it parses, and for
\* an object its keys, question_type and difficulty
Payload(parses, fields, qtype, difficulty) ==
    [parses |-> parses, kind |-> "object", fields |-> fields,
     question_type |-> qtype, difficulty |-> difficulty]

\* a span that parses to a JSON array of strings: "in" tests its elements
ArrayPayload(elements) ==
    [parses |-> TRUE, kind |-> "array", fields |-> elements,
     question_type |-> "", difficulty |-> ""]

TextReply(label, content, payload) ==
    [raises |-> FALSE, label |-> label, content |-> content, payload |-> payload]

GoodPayload(d) ==
    Payload(TRUE, RequiredFields \cup {"keywords", "choices"}, "short_answer", d)

ErrorReply ==
    [raises |-> TRUE, label |-> "invocation_error", content |-> <<>>,
     payload |-> GoodPayload("easy")]

LLMReplies ==
    {ErrorReply,
     \* prose only, and an empty tagged fence: nothing to extract
     TextReply("no_payload", <<"J", "_", "J">>, GoodPayload("easy")),
     TextReply("no_payload", <<"F", "J", "F">>, GoodPayload("easy")),
     \* a span json.loads rejects
     TextReply("invalid_json", <<"J", "{", "J", "}">>,
               Payload(FALSE, {}, "short_answer", "easy")),
     \* an object without its explanation, and one without its question
     TextReply("missing_field", <<"F", "J", "{", "}", "F">>,
               Payload(TRUE, RequiredFields \ {"explanation"}, "essay", "easy")),
     TextReply("missing_field", <<"{", "}">>,
               Payload(TRUE, {"keywords"}, "essay", "easy")),
     \* an object the GeneratedQuestion model rejects
     TextReply("invalid_value", <<"F", "{", "}", "F">>,
               Payload(TRUE, RequiredFields, "matching", "easy")),
     \* a complete object without keywords
     TextReply("success", <<"_", "{", "{", "}", "}", "_">>,
               Payload(TRUE, RequiredFields, "essay", "medium"))}
    \cup {TextReply("success", <<"F", "J", "_", "{", "}", "_", "F">>, GoodPayload(d)) :
            d \in Tiers}

(***************************************************************************)
(* QAGenerator._parse_response                                             *)
(***************************************************************************)
NoData == [some |-> FALSE, kind |-> "", fields |-> {}, question_type |-> "",
           difficulty |-> "", keywords |-> "absent"]

\* the dict returned on success: keywords defaulted to [] when absent
ParsedData(payload) ==
    [some |-> TRUE,
     kind |-> payload.kind,
     fields |-> payload.fields \cup {"keywords"},
     question_type |-> payload.question_type,
     difficulty |-> payload.difficulty,
     keywords |-> IF "keywords" \in payload.fields THEN "given" ELSE "empty"]

\* a plausible slip: the loop over the required fields stops after the first
ParseResponseFirstFieldOnly(reply) ==
    LET extracted == _extract_json_from_response(reply.content)
    IN  IF ~extracted.some \/ extracted.val = <<>> THEN NoData
        ELSE IF ~reply.payload.parses THEN NoData
        ELSE IF "question" \notin reply.payload.fields THEN NoData
        ELSE IF reply.payload.kind # "object" /\ "keywords" \notin reply.payload.fields
        THEN NoData
        ELSE ParsedData(reply.payload)

\* the default for keywords is an item assignment: on a value that is not
\* an object it raises, and the except clause returns None
_parse_response(reply) ==
    LET extracted == _extract_json_from_response(reply.content)
    IN  IF ~extracted.some \/ extracted.val = <<>> THEN NoData
        ELSE IF ~reply.payload.parses THEN NoData
        ELSE IF \E f \in RequiredFields : f \notin reply.payload.fields THEN NoData
        ELSE IF reply.payload.kind # "object" /\ "keywords" \notin reply.payload.fields
        THEN NoData
        ELSE ParsedData(reply.payload)

(***************************************************************************)
(* QAGenerator._generate_single_question                                   *)
(***************************************************************************)
NoQuestion == [some |-> FALSE, question_type |-> "", difficulty |-> "",
               keywords |-> "absent"]

\* GeneratedQuestion(**question_data): the enum fields are validated
GeneratedQuestionValid(data) ==
    /\ data.kind = "object"
    /\ data.question_type \in QuestionTypes
    /\ data.difficulty \in Tiers

GeneratedQuestion(data) ==
    [some |-> TRUE, question_type |-> data.question_type,
     difficulty |-> data.difficulty, keywords |-> data.keywords]

Returned(question) == [raised |-> FALSE, question |-> question]

Raised == [raised |-> TRUE, question |-> NoQuestion]

\* a plausible slip: only the parsing is guarded, so an invocation error or a
\* validation error leaves the function
GenerateSingleUnguarded(difficulty, reply) ==
    IF reply.raises THEN Raised
    ELSE LET question_data == _parse_response(reply)
         IN  IF question_data.some
             THEN IF GeneratedQuestionValid(question_data)
                  THEN Returned(GeneratedQuestion(question_data))
                  ELSE Raised
             ELSE Returned(NoQuestion)

\* the requested difficulty reaches the prompt only; the question is built
\* from the reply
_generate_single_question(difficulty, reply) ==
    IF reply.raises THEN Returned(NoQuestion)
    ELSE LET question_data == _parse_response(reply)
         IN  IF question_data.some
             THEN IF GeneratedQuestionValid(question_data)
                  THEN Returned(GeneratedQuestion(question_data))
                  ELSE Returned(NoQuestion)
             ELSE Returned(NoQuestion)

(***************************************************************************)
(* QAGenerator.generate_questions_for_slide                                *)
(***************************************************************************)
NoDist == [some |-> FALSE, val |-> [t \in Tiers |-> 0]]

SomeDist(d) == [some |-> TRUE, val |-> d]

DefaultDist == [t \in Tiers |-> IF t = "hard" THEN 0 ELSE 1]

Repeat(x, n) == [k \in 1..n |-> x]

\* the order in which the two nested loops visit the distribution
UnitsOf(dist) ==
    Repeat("easy", dist["easy"]) \o Repeat("medium", dist["medium"])
        \o Repeat("hard", dist["hard"])

Distributions ==
    {d \in [Tiers -> 0..MaxUnits] : d["easy"] + d["medium"] + d["hard"] <= MaxUnits}

GenStart ==
    /\ gen_dist \in {NoDist} \cup {SomeDist(d) : d \in Distributions}
    /\ gen_units = UnitsOf(IF gen_dist.some THEN gen_dist.val ELSE DefaultDist)
    /\ gen_questions = <<>>
    /\ gen_log = <<>>
    /\ gen_pc = "loop"

\* one iteration of the inner loop: one LLM call and its result
GenerateUnit ==
    /\ gen_pc = "loop"
    /\ gen_units # <<>>
    /\ \E reply \in LLMReplies :
          LET result == _generate_single_question(Head(gen_units), reply)
          IN  /\ gen_log' = Append(gen_log, [tier |-> Head(gen_units),
                                             label |-> reply.label,
                                             difficulty |-> reply.payload.difficulty])
              /\ IF result.raised
                 THEN /\ gen_pc' = "raised"
                      /\ UNCHANGED <<gen_units, gen_questions>>
                 ELSE /\ gen_units' = Tail(gen_units)
                      /\ gen_questions' =
                            IF result.question.some
                            THEN Append(gen_questions, result.question)
                            ELSE gen_questions
                      /\ UNCHANGED gen_pc
    /\ UNCHANGED gen_dist
    /\ UNCHANGED notGen

\* the loops are over: the QASet is returned
GenReturn ==
    /\ gen_pc = "loop"
    /\ gen_units = <<>>
    /\ gen_pc' = "returned"
    /\ UNCHANGED <<gen_dist, gen_units, gen_questions, gen_log>>
    /\ UNCHANGED notGen

(***************************************************************************)
(* C1: whatever each LLM call produces (invocation error, no extractable   *)
(* payload, invalid JSON, missing required field, rejected value or        *)
(* success), the single-question generator never raises to the slide loop; *)
(* every requested unit is attempted, also after a failed one, and the     *)
(* returned QASet holds exactly the questions of the successful units, in  *)
(* order.                                                                  *)
(***************************************************************************)
IsSuccess(entry) == entry.label = "success"

RequestedUnits == UnitsOf(IF gen_dist.some THEN gen_dist.val ELSE DefaultDist)

SuccessfulUnits == SelectSeq(gen_log, IsSuccess)

C1_FailuresAbsorbed ==
    gen_pc # "idle" =>
        /\ gen_pc # "raised"
        /\ Len(gen_log) + Len(gen_units) = Len(RequestedUnits)
        /\ Len(gen_questions) = Len(SuccessfulUnits)
        /\ \A k \in 1..Len(gen_questions) :
              /\ gen_questions[k].some
              /\ gen_questions[k].difficulty = SuccessfulUnits[k].difficulty
        /\ gen_pc = "returned" =>
              [k \in 1..Len(gen_log) |-> gen_log[k].tier] = RequestedUnits

\* a call that met an invocation error, then a reply without a required
\* field, then a success, and returned the one question
C1_Witness ==
    /\ gen_pc = "returned"
    /\ Len(gen_log) = 3
    /\ gen_log[1].label = "invocation_error"
    /\ gen_log[2].label = "missing_field"
    /\ gen_log[3].label = "success"
    /\ Len(gen_questions) = 1

(***************************************************************************)
(* SlideContent (pptx_extractor): a text is represented by its length, the *)
(* only thing the content gate reads.                                      *)
(***************************************************************************)
SlideContent(slide_number, title, content, bullet_points) ==
    [slide_number |-> slide_number, title |-> title, content |-> content,
     bullet_points |-> bullet_points]

RECURSIVE SumSeq(_)
SumSeq(s) == IF s = <<>> THEN 0 ELSE Head(s) + SumSeq(Tail(s))

\* a plausible slip: the parts are joined without their labels
FullTextPartsUnlabelled(slide) ==
    (IF slide.title > 0 THEN <<slide.title>> ELSE <<>>)
        \o (IF slide.content > 0 THEN <<slide.content>> ELSE <<>>)
        \o [k \in 1..Len(slide.bullet_points) |-> slide.bullet_points[k]]

\* the parts get_full_text joins with a newline, as lengths
FullTextParts(slide) ==
    (IF slide.title > 0 THEN <<7 + slide.title>> ELSE <<>>)
        \o (IF slide.content > 0 THEN <<9 + slide.content>> ELSE <<>>)
        \o (IF slide.bullet_points # <<>>
            THEN <<14>> \o [k \in 1..Len(slide.bullet_points) |->
                               2 + slide.bullet_points[k]]
            ELSE <<>>)

get_full_text(slide) ==
    LET parts == FullTextParts(slide)
    IN  IF parts = <<>> THEN 0 ELSE SumSeq(parts) + (Len(parts) - 1)

to_dict(slide) ==
    [slide_number |-> slide.slide_number, title |-> slide.title,
     content |-> slide.content, bullet_points |-> slide.bullet_points,
     full_text |-> get_full_text(slide)]

(***************************************************************************)
(* QAGenerator._has_sufficient_content                                     *)
(***************************************************************************)
min_text_length == 50

\* a plausible slip: any text at all counts as content
HasAnyContent(slide_content) ==
    \/ slide_content.full_text > 0
    \/ slide_content.content > 0
    \/ Len(slide_content.bullet_points) >= 2

\* a plausible slip: the thresholds are exclusive
HasSufficientContentStrict(slide_content) ==
    \/ slide_content.full_text > min_text_length
    \/ slide_content.content > min_text_length
    \/ Len(slide_content.bullet_points) > 2

_has_sufficient_content(slide_content) ==
    \/ slide_content.full_text >= min_text_length
    \/ slide_content.content >= min_text_length
    \/ Len(slide_content.bullet_points) >= 2

(***************************************************************************)
(* Ratios are kept in tenths: 0.4 is 4.  int(total * ratio) truncates      *)
(* toward zero.                                                            *)
(***************************************************************************)
RatioScale == 10

IntTrunc(num, den) ==
    IF num >= 0 THEN num \div den ELSE -((-num) \div den)

DefaultRatio == [easy |-> 4, medium |-> 4, hard |-> 2]

\* generate_comprehensive_qa: the number of questions for each difficulty
TargetCounts(total_questions, difficulty_ratio) ==
    LET easy_count == IntTrunc(total_questions * difficulty_ratio["easy"], RatioScale)
        medium_count == IntTrunc(total_questions * difficulty_ratio["medium"], RatioScale)
        hard_count == total_questions - easy_count - medium_count
    IN  [easy |-> easy_count, medium |-> medium_count, hard |-> hard_count]

(***************************************************************************)
(* QAGenerator._distribute_difficulty_for_slide                            *)
(***************************************************************************)
Min2(a, b) == IF a <= b THEN a ELSE b

Min3(a, b, c) == Min2(a, Min2(b, c))

ZeroDist == [t \in Tiers |-> 0]

\* a plausible slip: the pool is not consulted
DistributeStepUnchecked(st, difficulty) ==
    IF st.questions_count > 0
    THEN LET allocated == Min2(1, st.questions_count)
         IN  [distribution |-> [st.distribution EXCEPT ![difficulty] = allocated],
              remaining |-> [st.remaining EXCEPT ![difficulty] = @ - allocated],
              questions_count |-> st.questions_count - allocated]
    ELSE st

\* the body of the loop over the three difficulties
\* a plausible slip: up to two units of a tier for one slide
DistributeStepTwoPerTier(st, difficulty) ==
    LET available == st.remaining[difficulty]
    IN  IF available > 0 /\ st.questions_count > 0
        THEN LET allocated == Min3(2, available, st.questions_count)
             IN  [distribution |-> [st.distribution EXCEPT ![difficulty] = allocated],
                  remaining |-> [st.remaining EXCEPT ![difficulty] = @ - allocated],
                  questions_count |-> st.questions_count - allocated]
        ELSE st

DistributeStep(st, difficulty) ==
    LET available == st.remaining[difficulty]
    IN  IF available > 0 /\ st.questions_count > 0
        THEN LET allocated == Min3(1, available, st.questions_count)
             IN  [distribution |-> [st.distribution EXCEPT ![difficulty] = allocated],
                  remaining |-> [st.remaining EXCEPT ![difficulty] = @ - allocated],
                  questions_count |-> st.questions_count - allocated]
        ELSE st

\* returns the slide's distribution and the shared counts it has depleted
_distribute_difficulty_for_slide(questions_count, remaining_difficulty_counts) ==
    LET st0 == [distribution |-> ZeroDist,
                remaining |-> remaining_difficulty_counts,
                questions_count |-> questions_count]
        st3 == DistributeStep(DistributeStep(DistributeStep(st0, TierOrder[1]),
                                             TierOrder[2]), TierOrder[3])
    IN  [distribution |-> st3.distribution, remaining |-> st3.remaining]

(***************************************************************************)
(* generate_questions_for_slide as a function of the replies of its calls  *)
(***************************************************************************)
RECURSIVE QuestionsFor(_, _)
QuestionsFor(units, replies) ==
    IF units = <<>> THEN [raised |-> FALSE, questions |-> <<>>]
    ELSE LET result == _generate_single_question(Head(units), Head(replies))
             rest == QuestionsFor(Tail(units), Tail(replies))
         IN  IF result.raised \/ rest.raised
             THEN [raised |-> TRUE, questions |-> <<>>]
             ELSE [raised |-> FALSE,
                   questions |-> (IF result.question.some
                                  THEN <<result.question>> ELSE <<>>)
                                 \o rest.questions]

(***************************************************************************)
(* QAGenerator.generate_comprehensive_qa                                   *)
(***************************************************************************)
\* a slide with 50 characters of content, and one with a short title and
\* 10 characters of content (full text of 32 characters)
SlideOfKind(kind, slide_number) ==
    IF kind = "rich" THEN SlideContent(slide_number, 0, 50, <<>>)
    ELSE SlideContent(slide_number, 5, 10, <<>>)

\* decks of at most MaxQASlides slides, at most one of them thin
QADecks ==
    {deck \in UNION {[1..n -> {"rich", "thin"}] : n \in 0..MaxQASlides} :
        Cardinality({k \in 1..Len(deck) : deck[k] = "thin"}) <= 1}

QARatios == {DefaultRatio,
             [easy |-> 5, medium |-> 5, hard |-> 0],
             [easy |-> 10, medium |-> 0, hard |-> 0]}

SuccessReply(d) ==
    TextReply("success", <<"F", "J", "_", "{", "}", "_", "F">>, GoodPayload(d))

\* what the LLM may answer to one unit of the batch
QAReplies == {ErrorReply} \cup {SuccessReply(d) : d \in Tiers}

QAStartInput ==
    /\ qa_input \in [slides : {[k \in 1..Len(deck) |-> to_dict(SlideOfKind(deck[k], k))] :
                                 deck \in QADecks},
                     total_questions : 0..MaxTotalQuestions,
                     difficulty_ratio : QARatios]
    /\ qa_valid = <<>>
    /\ qa_target = ZeroDist
    /\ difficulty_counts = ZeroDist
    /\ qa_plan = <<>>
    /\ qa_sets = <<>>
    /\ qa_last_questions = <<>>
    /\ qa_all_ok = TRUE
    /\ qa_pc = "call"

\* a plausible slip: the extra questions go to the last slides
SlideQuestionsExtraToLast(i, total_questions, slide_count) ==
    LET questions_per_slide == total_questions \div slide_count
        remaining_questions == total_questions % slide_count
    IN  IF i >= slide_count - remaining_questions
        THEN questions_per_slide + 1
        ELSE questions_per_slide

\* the number of questions for the slide at 0-based position i
SlideQuestions(i, total_questions, slide_count) ==
    LET questions_per_slide == total_questions \div slide_count
        remaining_questions == total_questions % slide_count
    IN  IF i < remaining_questions
        THEN questions_per_slide + 1
        ELSE questions_per_slide

\* the target counts, the eligible slides, the early return
QAStart ==
    /\ qa_pc = "call"
    /\ LET counts == TargetCounts(qa_input.total_questions, qa_input.difficulty_ratio)
           valid_slides == SelectSeq(qa_input.slides, _has_sufficient_content)
       IN  /\ qa_valid' = valid_slides
           /\ qa_target' = counts
           /\ difficulty_counts' = counts
           /\ qa_pc' = IF valid_slides = <<>> THEN "returned" ELSE "loop"
    /\ UNCHANGED <<qa_input, qa_plan, qa_sets, qa_last_questions, qa_all_ok>>
    /\ UNCHANGED notQA

\* one iteration of the loop over valid_slides
QAProcessSlide ==
    /\ qa_pc = "loop"
    /\ Len(qa_sets) < Len(qa_valid)
    /\ LET i == Len(qa_sets)
           slide_content == qa_valid[i + 1]
           slide_questions == SlideQuestions(i, qa_input.total_questions, Len(qa_valid))
           d == _distribute_difficulty_for_slide(slide_questions, difficulty_counts)
           units == UnitsOf(d.distribution)
       IN  \E replies \in [1..Len(units) -> QAReplies] :
              LET qa_set == QuestionsFor(units, replies)
              IN  /\ ~qa_set.raised
                  /\ difficulty_counts' = d.remaining
                  /\ qa_plan' = Append(qa_plan,
                                       [slide_number |-> slide_content.slide_number,
                                        slide_questions |-> slide_questions,
                                        distribution |-> d.distribution])
                  /\ qa_sets' = Append(qa_sets, slide_content.slide_number)
                  /\ qa_last_questions' = qa_set.questions
                  /\ qa_all_ok' = (qa_all_ok /\
                                   \A k \in 1..Len(units) : replies[k].label = "success")
    /\ UNCHANGED <<qa_input, qa_valid, qa_target, qa_pc>>
    /\ UNCHANGED notQA

QAReturn ==
    /\ qa_pc = "loop"
    /\ Len(qa_sets) = Len(qa_valid)
    /\ qa_pc' = "returned"
    /\ UNCHANGED <<qa_input, qa_valid, qa_target, difficulty_counts, qa_plan,
                   qa_sets, qa_last_questions, qa_all_ok>>
    /\ UNCHANGED notQA

(***************************************************************************)
(* Quantities the claims on generate_comprehensive_qa speak about          *)
(***************************************************************************)
RECURSIVE PlannedOf(_, _)
PlannedOf(plan, t) ==
    IF plan = <<>> THEN 0
    ELSE Head(plan).distribution[t] + PlannedOf(Tail(plan), t)

\* units of tier t requested over all slides processed so far
Planned(t) == PlannedOf(qa_plan, t)

EligibleNumbers ==
    {qa_input.slides[k].slide_number :
        k \in {j \in 1..Len(qa_input.slides) :
                 \/ qa_input.slides[j].full_text >= 50
                 \/ qa_input.slides[j].content >= 50
                 \/ Len(qa_input.slides[j].bullet_points) >= 2}}

SetNumbers == {qa_sets[k] : k \in 1..Len(qa_sets)}

\* the quota of the slide at 0-based position i among n eligible slides
Quota(i, n) ==
    (qa_input.total_questions \div n) + (IF i < qa_input.total_questions % n THEN 1 ELSE 0)

\* tiers whose shared count was still positive when the last slide was reached
OpenTiersBeforeLast ==
    {t \in Tiers :
        qa_target[t] - PlannedOf(SubSeq(qa_plan, 1, Len(qa_plan) - 1), t) > 0}

ThreeEligibleOfFour ==
    /\ Len(qa_input.slides) = 4
    /\ Cardinality(EligibleNumbers) = 3
    /\ qa_input.total_questions = 6
    /\ qa_input.difficulty_ratio = DefaultRatio

(***************************************************************************)
(* C3 as stated: 3 eligible slides and 1 ineligible, 6 questions at        *)
(* 0.4/0.4/0.2, every generation succeeding: sets only for the eligible    *)
(* slides, and the requested tiers add up to easy 2, medium 2, hard 2.     *)
(***************************************************************************)
C3_AsStated ==
    (qa_pc = "returned" /\ ThreeEligibleOfFour /\ qa_all_ok) =>
        /\ SetNumbers = EligibleNumbers
        /\ Len(qa_sets) = 3
        /\ Planned("easy") = 2 /\ Planned("medium") = 2 /\ Planned("hard") = 2

(***************************************************************************)
(* C3 amended: in that scenario the sets are those of the 3 eligible       *)
(* slides and the requested tiers add up to easy 2, medium 2, hard 1: the  *)
(* third slide is asked for 2 questions but only the hard count is left    *)
(* and a slide draws at most one question of a tier.                       *)
(***************************************************************************)
C3_FiveOfSix ==
    (qa_pc = "returned" /\ ThreeEligibleOfFour) =>
        /\ SetNumbers = EligibleNumbers
        /\ Len(qa_sets) = 3
        /\ Planned("easy") = 2 /\ Planned("medium") = 2 /\ Planned("hard") = 1
        /\ qa_plan[3].slide_questions = 2
        /\ qa_all_ok => Len(qa_last_questions) = 1

C3_Witness ==
    /\ qa_pc = "returned"
    /\ ThreeEligibleOfFour
    /\ qa_all_ok
    /\ Len(qa_sets) = 3
    /\ Len(qa_last_questions) = 1

(***************************************************************************)
(* C4 as stated: with n eligible slides and every generation succeeding,   *)
(* the i-th eligible slide receives total div n questions, plus one if     *)
(* i < total mod n.                                                        *)
(***************************************************************************)
C4_AsStated ==
    (qa_pc \in {"loop", "returned"} /\ qa_sets # <<>> /\ qa_all_ok) =>
        Len(qa_last_questions) = Quota(Len(qa_sets) - 1, Len(qa_valid))

(***************************************************************************)
(* C4 amended: the i-th eligible slide is asked for total div n questions, *)
(* plus one if i < total mod n, and with every generation succeeding it    *)
(* receives that many or, if fewer, one for each tier whose shared count   *)
(* is still positive; 7 slides and 10 questions at 0.4/0.4/0.2 give 2      *)
(* questions to each of the first 3 slides and 1 to each of the other 4.   *)
(***************************************************************************)
SevenSlidesTenQuestions ==
    /\ Len(qa_valid) = 7
    /\ qa_input.total_questions = 10
    /\ qa_input.difficulty_ratio = DefaultRatio

C4_QuotaCappedByOpenTiers ==
    (qa_pc \in {"loop", "returned"} /\ qa_sets # <<>>) =>
        LET i == Len(qa_sets) - 1
            last == qa_plan[Len(qa_plan)]
        IN  /\ last.slide_questions = Quota(i, Len(qa_valid))
            /\ qa_all_ok =>
                  Len(qa_last_questions) =
                      Min2(Quota(i, Len(qa_valid)), Cardinality(OpenTiersBeforeLast))
            /\ (SevenSlidesTenQuestions /\ qa_all_ok) =>
                  Len(qa_last_questions) = (IF i < 3 THEN 2 ELSE 1)

\* the last of 7 slides has received its single question
C4_Witness ==
    /\ qa_pc = "returned"
    /\ SevenSlidesTenQuestions
    /\ qa_all_ok
    /\ Len(qa_sets) = 7
    /\ Len(qa_last_questions) = 1

(***************************************************************************)
(* C5: after any number of slides the shared remaining count of every tier *)
(* is >= 0 and the units allocated to a tier over all slides never exceed  *)
(* the tier's count in the target distribution.                            *)
(***************************************************************************)
C5_NoTierOverAllocated ==
    qa_pc \in {"loop", "returned"} =>
        \A t \in Tiers :
            /\ difficulty_counts[t] >= 0
            /\ Planned(t) <= qa_target[t]
            /\ Planned(t) + difficulty_counts[t] = qa_target[t]

\* a slide asked for more than the exhausted pool could give
C5_Witness ==
    /\ qa_pc = "loop"
    /\ qa_plan # <<>>
    /\ LET last == qa_plan[Len(qa_plan)]
       IN  /\ last.slide_questions = 2
           /\ last.distribution = [easy |-> 0, medium |-> 0, hard |-> 1]
    /\ difficulty_counts["easy"] = 0
    /\ difficulty_counts["medium"] = 0

(***************************************************************************)
(* C25 as stated: every question _generate_single_question returns has the *)
(* difficulty of the tier it was requested for, so the questions of a      *)
(* QuestionSet of generate_comprehensive_qa carry the tiers allocated to   *)
(* their slide: of no tier more questions than units were allocated.       *)
(***************************************************************************)
C25_TiersAsAllocated ==
    (qa_pc = "loop" /\ qa_plan # <<>>) =>
        \A t \in Tiers :
           Len(SelectSeq(qa_last_questions, LAMBDA q : q.difficulty = t))
               <= qa_plan[Len(qa_plan)].distribution[t]

\* units allocated to one slide
UnitsOfPlan(entry) ==
    entry.distribution["easy"] + entry.distribution["medium"] + entry.distribution["hard"]

RECURSIVE UnitsPlanned(_)
UnitsPlanned(plan) ==
    IF plan = <<>> THEN 0 ELSE UnitsOfPlan(Head(plan)) + UnitsPlanned(Tail(plan))

(***************************************************************************)
(* C26: generate_comprehensive_qa allocates at most one unit of each tier  *)
(* to a slide, so no returned QuestionSet has more than 3 questions (each  *)
(* set holds at most one question per allocated unit) and the units        *)
(* allocated over all slides, hence the questions returned, number at most *)
(* min(total_questions, 3 * number of eligible slides), whatever           *)
(* total_questions is.                                                     *)
(***************************************************************************)
C26_AtMostOnePerTier ==
    (qa_pc \in {"loop", "returned"} /\ qa_plan # <<>>) =>
        /\ \A k \in 1..Len(qa_plan) :
              \A t \in Tiers : qa_plan[k].distribution[t] <= 1
        /\ Len(qa_last_questions) <= UnitsOfPlan(qa_plan[Len(qa_plan)])
        /\ Len(qa_last_questions) <= 3
        /\ UnitsPlanned(qa_plan) <= qa_input.total_questions
        /\ UnitsPlanned(qa_plan) <= 3 * Len(qa_valid)

\* one eligible slide asked for ten questions returns three
C26_Witness ==
    /\ qa_pc = "returned"
    /\ Len(qa_valid) = 1
    /\ qa_input.total_questions = 10
    /\ Len(qa_plan) = 1
    /\ qa_plan[1].slide_questions = 10
    /\ Len(qa_last_questions) = 3

(***************************************************************************)
(* DifficultyAdjuster.calculate_difficulty_distribution                    *)
(***************************************************************************)
NoRatio == [some |-> FALSE, val |-> [easy |-> 0, medium |-> 0, hard |-> 0]]

SomeRatio(r) == [some |-> TRUE, val |-> r]

\* a plausible slip: every tier is truncated on its own
CalculateEachTruncated(total_questions, target_distribution) ==
    LET target == IF target_distribution.some THEN target_distribution.val
                  ELSE DefaultRatio
    IN  [t \in Tiers |-> IntTrunc(total_questions * target[t], RatioScale)]

calculate_difficulty_distribution(total_questions, target_distribution) ==
    LET target == IF target_distribution.some THEN target_distribution.val
                  ELSE DefaultRatio
        easy_count == IntTrunc(total_questions * target["easy"], RatioScale)
        remaining_after_easy == total_questions - easy_count
        medium_count == IntTrunc(total_questions * target["medium"], RatioScale)
        remaining_questions == remaining_after_easy - medium_count
    IN  [easy |-> easy_count, medium |-> medium_count, hard |-> remaining_questions]

\* every ratio mapping in tenths that sums to 1.0
UnitRatios ==
    {r \in [Tiers -> 0..RatioScale] : r["easy"] + r["medium"] + r["hard"] = RatioScale}

DistStart ==
    /\ dist_input \in [total_questions : 0..MaxDistTotal,
                       target_distribution : {NoRatio} \cup {SomeRatio(r) : r \in UnitRatios}]
    /\ distribution = ZeroDist
    /\ dist_counts = ZeroDist
    /\ dist_pc = "call"

\* the adjuster's distribution and the generator's counts for the same input
CalculateDistribution ==
    /\ dist_pc = "call"
    /\ distribution' = calculate_difficulty_distribution(dist_input.total_questions,
                                                         dist_input.target_distribution)
    /\ dist_counts' = TargetCounts(dist_input.total_questions,
                                   IF dist_input.target_distribution.some
                                   THEN dist_input.target_distribution.val
                                   ELSE DefaultRatio)
    /\ dist_pc' = "returned"
    /\ UNCHANGED dist_input
    /\ UNCHANGED notDist

(***************************************************************************)
(* C6: for every total >= 0 and every ratio mapping summing to 1.0 the     *)
(* three counts sum exactly to total; easy and medium are the floor of     *)
(* total * ratio and hard is the remainder, in the adjuster and in the     *)
(* generator alike.                                                        *)
(***************************************************************************)
EffectiveRatio ==
    IF dist_input.target_distribution.some THEN dist_input.target_distribution.val
    ELSE DefaultRatio

\* n = floor(total * ratio), with ratio in tenths
IsFloorOfProduct(n, total, ratio) ==
    RatioScale * n <= total * ratio /\ total * ratio < RatioScale * (n + 1)

SplitsExactly(counts) ==
    /\ counts["easy"] + counts["medium"] + counts["hard"] = dist_input.total_questions
    /\ IsFloorOfProduct(counts["easy"], dist_input.total_questions, EffectiveRatio["easy"])
    /\ IsFloorOfProduct(counts["medium"], dist_input.total_questions, EffectiveRatio["medium"])
    /\ counts["hard"] >= 0

LowerChar(c) == IF c = "A" THEN "a" ELSE IF c = "B" THEN "b" ELSE c

Lower(s) == [k \in 1..Len(s) |-> LowerChar(s[k])]

RECURSIVE LStripText(_)
LStripText(s) == IF s # <<>> /\ Head(s) = " " THEN LStripText(Tail(s)) ELSE s

RECURSIVE RStripText(_)
RStripText(s) ==
    IF s # <<>> /\ s[Len(s)] = " " THEN RStripText(SubSeq(s, 1, Len(s) - 1)) ELSE s

\* a plausible slip: only leading whitespace is removed
StripTextLeftOnly(s) == LStripText(s)

StripText(s) == RStripText(LStripText(s))

CharWidth(c) == IF c = "W" THEN 48 ELSE 1

RECURSIVE TextLen(_)
TextLen(s) == IF s = <<>> THEN 0 ELSE CharWidth(Head(s)) + TextLen(Tail(s))

\* a plausible slip: startswith instead of in
ContainsPrefixOnly(hay, needle) ==
    /\ Len(needle) <= Len(hay)
    /\ \A j \in 1..Len(needle) : hay[j] = needle[j]

\* a plausible slip: the empty string is taken to occur nowhere
ContainsNonEmpty(hay, needle) ==
    /\ needle # <<>>
    /\ \E k \in 0..(Len(hay) - Len(needle)) :
           \A j \in 1..Len(needle) : hay[k + j] = needle[j]

\* Python's "needle in hay" on strings
Contains(hay, needle) ==
    \E k \in 0..(Len(hay) - Len(needle)) :
        \A j \in 1..Len(needle) : hay[k + j] = needle[j]

(***************************************************************************)
(* Question rows and _evaluate_answer                                      *)
(***************************************************************************)
Question(question_type, correct_answer, keywords) ==
    [question_type |-> question_type, correct_answer |-> correct_answer,
     keywords |-> keywords]

\* Question.get_keywords_list: the JSON column is a list or null (<<>>)
get_keywords_list(question) == question.keywords

\* a plausible slip: the keywords are not lower-cased
KeywordMatchesCaseSensitive(question, student_answer) ==
    Cardinality({k \in 1..Len(get_keywords_list(question)) :
                    Contains(student_answer, get_keywords_list(question)[k])})

KeywordMatches(question, student_answer) ==
    LET keywords == [k \in 1..Len(get_keywords_list(question)) |->
                        Lower(get_keywords_list(question)[k])]
    IN  Cardinality({k \in 1..Len(keywords) : Contains(student_answer, keywords[k])})

\* a plausible slip: the essay threshold is exclusive
EvaluateAnswerEssayStrict(question, response_text) ==
    IF question.question_type \in {"multiple_choice", "single_choice"}
    THEN Lower(StripText(response_text)) = Lower(StripText(question.correct_answer))
    ELSE IF question.question_type = "short_answer"
    THEN LET correct_answer == Lower(StripText(question.correct_answer))
             student_answer == Lower(StripText(response_text))
         IN  IF question.keywords # <<>>
             THEN 2 * KeywordMatches(question, student_answer)
                      >= Len(get_keywords_list(question))
             ELSE Contains(student_answer, correct_answer)
                      \/ Contains(correct_answer, student_answer)
    ELSE IF question.keywords # <<>>
         THEN LET student_answer == Lower(StripText(response_text))
                  matches == KeywordMatches(question, student_answer)
              IN  matches >= 1 /\ 10 * matches > 3 * Len(get_keywords_list(question))
         ELSE TextLen(StripText(response_text)) >= 50

_evaluate_answer(question, response_text) ==
    IF question.question_type \in {"multiple_choice", "single_choice"}
    THEN Lower(StripText(response_text)) = Lower(StripText(question.correct_answer))
    ELSE IF question.question_type = "short_answer"
    THEN LET correct_answer == Lower(StripText(question.correct_answer))
             student_answer == Lower(StripText(response_text))
         IN  IF question.keywords # <<>>
             THEN 2 * KeywordMatches(question, student_answer)
                      >= Len(get_keywords_list(question))
             ELSE Contains(student_answer, correct_answer)
                      \/ Contains(correct_answer, student_answer)
    ELSE IF question.keywords # <<>>
         THEN LET student_answer == Lower(StripText(response_text))
                  matches == KeywordMatches(question, student_answer)
              IN  matches >= 1 /\ 10 * matches >= 3 * Len(get_keywords_list(question))
         ELSE TextLen(StripText(response_text)) >= 50

(***************************************************************************)
(* submit_answer and _update_correct_rate (routers/questions.py)           *)
(***************************************************************************)
\* the questions table of this specification
QuestionTable ==
    <<Question("single_choice", <<"a">>, <<>>),
      Question("short_answer", <<"a", "b">>, << <<"a">>, <<"B">> >>)>>

QuestionIds == 1..Len(QuestionTable)

\* ids a request may name: those of the table and one that does not exist
RequestedIds == 1..(Len(QuestionTable) + 1)

AnswerTexts == {<<"a">>, <<" ", "A", " ">>, <<"b">>, <<>>}

NoRate == [some |-> FALSE, val |-> 0]

SomeRate(n) == [some |-> TRUE, val |-> n]

NoRequest == [question_id |-> 0, response_text |-> <<>>, status |-> "none",
              is_correct |-> FALSE, stored |-> FALSE]

\* sessionmaker(autocommit=False, autoflush=False, bind=engine)
autoflush == FALSE

\* the rows a query of this session sees: pending rows only after a flush
QueryableRows(committed, pending) ==
    IF autoflush THEN committed \o pending ELSE committed

ResponsesOf(rows, question_id) ==
    SelectSeq(rows, LAMBDA r : r.question_id = question_id)

CorrectCount(rows) == Len(SelectSeq(rows, LAMBDA r : r.is_correct))

\* int((correct_count / total_count) * 100)
RateOf(rows) == (CorrectCount(rows) * 100) \div Len(rows)

\* the rate _update_correct_rate leaves on the question
_update_correct_rate(old_rate, question_id, committed, pending) ==
    LET responses == ResponsesOf(QueryableRows(committed, pending), question_id)
    IN  IF responses # <<>> THEN SomeRate(RateOf(responses)) ELSE old_rate

AnswerStart ==
    /\ questions_db = [q \in QuestionIds |-> [usage_count |-> 0, correct_rate |-> NoRate]]
    /\ responses_db = <<>>
    /\ last_request = NoRequest

\* the question does not exist: 404, nothing written
SubmitAnswerNotFound(question_id, response_text) ==
    /\ question_id \notin QuestionIds
    /\ last_request' = [question_id |-> question_id, response_text |-> response_text,
                        status |-> "404", is_correct |-> FALSE, stored |-> FALSE]
    /\ UNCHANGED <<questions_db, responses_db>>

\* the pending changes of the question row pass through the commit
SubmitAnswerCommit(question_id, response_text, status) ==
    /\ question_id \in QuestionIds
    /\ Len(responses_db) < MaxResponses
    /\ LET is_correct == _evaluate_answer(QuestionTable[question_id], response_text)
           student_response == [question_id |-> question_id, is_correct |-> is_correct]
           row == questions_db[question_id]
       IN  /\ questions_db' =
                 [questions_db EXCEPT ![question_id] =
                     [usage_count |-> row.usage_count + 1,
                      correct_rate |-> _update_correct_rate(row.correct_rate, question_id,
                                                            responses_db,
                                                            <<student_response>>)]]
           /\ responses_db' = Append(responses_db, student_response)
           /\ last_request' = [question_id |-> question_id,
                               response_text |-> response_text,
                               status |-> status, is_correct |-> is_correct,
                               stored |-> TRUE]

\* the request up to its commit and its refresh, which succeed
SubmitAnswerOk(question_id, response_text) ==
    SubmitAnswerCommit(question_id, response_text, "ok")

\* the commit succeeds and db.refresh raises: the rollback finds nothing
\* pending, 500
SubmitAnswerRefreshFailed(question_id, response_text) ==
    SubmitAnswerCommit(question_id, response_text, "500")

\* a plausible slip: the pending change of the row outlives the rollback
RollbackKeepsPending(row, pending) == pending

\* db.rollback(): the pending changes of the row are discarded
RolledBack(row, pending) == row

\* the evaluation or the commit fails: rollback, 500, nothing written
SubmitAnswerFailed(question_id, response_text) ==
    /\ question_id \in QuestionIds
    /\ LET row == questions_db[question_id]
           pending == [row EXCEPT !.usage_count = @ + 1]
       IN  questions_db' = [questions_db EXCEPT ![question_id] = RolledBack(row, pending)]
    /\ last_request' = [question_id |-> question_id, response_text |-> response_text,
                        status |-> "500",
                        is_correct |-> _evaluate_answer(QuestionTable[question_id],
                                                        response_text),
                        stored |-> FALSE]
    /\ UNCHANGED responses_db

submit_answer ==
    /\ \E question_id \in RequestedIds, response_text \in AnswerTexts :
          \/ SubmitAnswerNotFound(question_id, response_text)
          \/ SubmitAnswerOk(question_id, response_text)
          \/ SubmitAnswerRefreshFailed(question_id, response_text)
          \/ SubmitAnswerFailed(question_id, response_text)
    /\ UNCHANGED notAnswer

(***************************************************************************)
(* C7 as stated: after every successful submit_answer the question's       *)
(* stored correct_rate is the rate over all of its stored responses with   *)
(* known correctness, the one just submitted included; after the first     *)
(* submission it is already 0 or 100.                                      *)
(***************************************************************************)
C7_RateIncludesNewResponse ==
    last_request.status = "ok" =>
        LET stored == ResponsesOf(responses_db, last_request.question_id)
        IN  questions_db[last_request.question_id].correct_rate
                = SomeRate((CorrectCount(stored) * 100) \div Len(stored))

(***************************************************************************)
(* upload_lecture and the background task process_lecture_content          *)
(* (routers/lectures.py).  lecture_status is the committed column, the one *)
(* every other session reads; a commit, a query, the extraction and each   *)
(* LLM call either succeed or raise.                                       *)
(***************************************************************************)
\* settings.max_slides_for_qa of this model
max_slides_for_qa == 2

LectureDecks == UNION {[1..n -> {"rich", "thin"}] : n \in 0..MaxLectureSlides}

\* what the LLM may answer to one unit of the lecture's batch
LectureReplies ==
    {ErrorReply,
     TextReply("invalid_json", <<"J", "{", "J", "}">>,
               Payload(FALSE, {}, "short_answer", "easy")),
     TextReply("missing_field", <<"F", "J", "{", "}", "F">>,
               Payload(TRUE, RequiredFields \ {"explanation"}, "essay", "easy")),
     SuccessReply("easy"),
     SuccessReply("hard")}

\* an upload: the checks of the extension and of the size
UploadFiles == [extension_ok : BOOLEAN, size_ok : BOOLEAN]

\* slides_content[:settings.max_slides_for_qa]
FirstSlides(slides_content, n) ==
    SubSeq(slides_content, 1, Min2(Len(slides_content), n))

\* the LLM calls a batch makes: two for every slide with sufficient content
UnitCount(slides_content) ==
    Len(SelectSeq(slides_content, _has_sufficient_content)) * Len(UnitsOf(DefaultDist))

\* a plausible slip: a unit without a question aborts the batch
RECURSIVE GenerateMultipleAllOrNothing(_, _)
GenerateMultipleAllOrNothing(slides_content, replies) ==
    IF slides_content = <<>> THEN [raised |-> FALSE, qa_sets |-> <<>>]
    ELSE IF ~_has_sufficient_content(Head(slides_content))
    THEN GenerateMultipleAllOrNothing(Tail(slides_content), replies)
    ELSE LET units == UnitsOf(DefaultDist)
             qa_set == QuestionsFor(units, SubSeq(replies, 1, Len(units)))
             rest == GenerateMultipleAllOrNothing(
                         Tail(slides_content),
                         SubSeq(replies, Len(units) + 1, Len(replies)))
         IN  IF qa_set.raised \/ rest.raised \/ Len(qa_set.questions) < Len(units)
             THEN [raised |-> TRUE, qa_sets |-> <<>>]
             ELSE [raised |-> FALSE,
                   qa_sets |-> <<[slide_number |-> Head(slides_content).slide_number,
                                  questions |-> qa_set.questions]>> \o rest.qa_sets]

\* the gate, then generate_questions_for_slide with its default distribution
RECURSIVE generate_questions_for_multiple_slides(_, _)
generate_questions_for_multiple_slides(slides_content, replies) ==
    IF slides_content = <<>> THEN [raised |-> FALSE, qa_sets |-> <<>>]
    ELSE IF ~_has_sufficient_content(Head(slides_content))
    THEN generate_questions_for_multiple_slides(Tail(slides_content), replies)
    ELSE LET units == UnitsOf(DefaultDist)
             qa_set == QuestionsFor(units, SubSeq(replies, 1, Len(units)))
             rest == generate_questions_for_multiple_slides(
                         Tail(slides_content),
                         SubSeq(replies, Len(units) + 1, Len(replies)))
         IN  IF qa_set.raised \/ rest.raised
             THEN [raised |-> TRUE, qa_sets |-> <<>>]
             ELSE [raised |-> FALSE,
                   qa_sets |-> <<[slide_number |-> Head(slides_content).slide_number,
                                  questions |-> qa_set.questions]>> \o rest.qa_sets]

\* the Question rows built from the sets, in order
RECURSIVE QuestionRows(_)
QuestionRows(sets) ==
    IF sets = <<>> THEN <<>>
    ELSE [k \in 1..Len(Head(sets).questions) |->
             [slide_number |-> Head(sets).slide_number,
              question_type |-> Head(sets).questions[k].question_type,
              difficulty |-> Head(sets).questions[k].difficulty]]
         \o QuestionRows(Tail(sets))

\* a plausible slip: the error handler also runs after a successful commit
PcAfterCompleteAlwaysHandler(commit_ok) == "handler"

\* where the task goes after the commit of "completed"
PcAfterComplete(commit_ok) == IF commit_ok THEN "done" ELSE "handler"

\* a plausible slip: the handler sets the status without committing it
StatusAfterHandlerUncommitted(status, commit_ok) == status

\* the committed status after the except block
StatusAfterHandler(status, commit_ok) == IF commit_ok THEN "error" ELSE status

LectureStart ==
    /\ lecture_status = "none"
    /\ status_history = <<>>
    /\ lecture_pc = "idle"
    /\ lecture_slides = <<>>
    /\ lecture_replies = <<>>
    /\ pending_questions = <<>>
    /\ lecture_questions = <<>>
    /\ lecture_failures = {}
    /\ google_api_key \in BOOLEAN

\* POST /upload: 400 on a failed check, 500 when the write or the commit
\* fails, else the row is committed as "uploaded" and the task is queued
upload_lecture ==
    /\ lecture_pc = "idle"
    /\ \E file \in UploadFiles, saved \in BOOLEAN :
          IF ~file.extension_ok \/ ~file.size_ok
          THEN /\ lecture_pc' = "rejected"
               /\ UNCHANGED <<lecture_status, status_history>>
          ELSE IF ~saved
          THEN /\ lecture_pc' = "upload_failed"
               /\ UNCHANGED <<lecture_status, status_history>>
          ELSE /\ lecture_pc' = "queued"
               /\ lecture_status' = "uploaded"
               /\ status_history' = <<"uploaded">>
    /\ UNCHANGED <<lecture_slides, lecture_replies, pending_questions,
                   lecture_questions, lecture_failures, google_api_key>>
    /\ UNCHANGED notLecture

\* the task up to the commit of "processing"; a failing query leaves the
\* except block with lecture unbound, so the task ends there
TaskStart ==
    /\ lecture_pc = "queued"
    /\ \E outcome \in {"ok", "query_failed", "commit_failed"} :
          IF outcome = "ok"
          THEN /\ lecture_status' = "processing"
               /\ status_history' = Append(status_history, "processing")
               /\ lecture_pc' = "extract"
               /\ UNCHANGED lecture_failures
          ELSE /\ lecture_failures' = lecture_failures \cup {outcome}
               /\ lecture_pc' = IF outcome = "query_failed" THEN "done" ELSE "handler"
               /\ UNCHANGED <<lecture_status, status_history>>
    /\ UNCHANGED <<lecture_slides, lecture_replies, pending_questions,
                   lecture_questions, google_api_key>>
    /\ UNCHANGED notLecture

\* extractor.extract_from_file returns the slides or raises
ExtractContent ==
    /\ lecture_pc = "extract"
    /\ \/ \E deck \in LectureDecks :
             /\ lecture_slides' = [k \in 1..Len(deck) |-> SlideOfKind(deck[k], k)]
             /\ lecture_pc' = "generate"
             /\ UNCHANGED lecture_failures
       \/ /\ lecture_failures' = lecture_failures \cup {"extraction_failed"}
          /\ lecture_pc' = "handler"
          /\ UNCHANGED lecture_slides
    /\ UNCHANGED <<lecture_status, status_history, lecture_replies, pending_questions,
                   lecture_questions, google_api_key>>
    /\ UNCHANGED notLecture

\* the QA generation block: the rows are added to the session
GenerateQuestions ==
    /\ lecture_pc = "generate"
    /\ IF google_api_key
       THEN LET slides_data == [k \in 1..Len(FirstSlides(lecture_slides, max_slides_for_qa)) |->
                                   to_dict(lecture_slides[k])]
            IN  \E replies \in [1..UnitCount(slides_data) -> LectureReplies] :
                   LET result == generate_questions_for_multiple_slides(slides_data, replies)
                   IN  /\ lecture_replies' = replies
                       /\ IF result.raised
                          THEN /\ lecture_failures' =
                                     lecture_failures \cup {"generation_failed"}
                               /\ lecture_pc' = "handler"
                               /\ UNCHANGED pending_questions
                          ELSE /\ pending_questions' = QuestionRows(result.qa_sets)
                               /\ lecture_pc' = "complete"
                               /\ UNCHANGED lecture_failures
       ELSE /\ lecture_pc' = "complete"
            /\ UNCHANGED <<lecture_replies, pending_questions, lecture_failures>>
    /\ UNCHANGED <<lecture_status, status_history, lecture_slides, lecture_questions,
                   google_api_key>>
    /\ UNCHANGED notLecture

\* status "completed" and the commit: the pending rows are stored with it,
\* or the failed commit rolls everything back
CompleteProcessing ==
    /\ lecture_pc = "complete"
    /\ \E commit_ok \in BOOLEAN :
          /\ lecture_pc' = PcAfterComplete(commit_ok)
          /\ IF commit_ok
             THEN /\ lecture_status' = "completed"
                  /\ status_history' = Append(status_history, "completed")
                  /\ lecture_questions' = pending_questions
                  /\ UNCHANGED lecture_failures
             ELSE /\ lecture_failures' = lecture_failures \cup {"commit_failed"}
                  /\ UNCHANGED <<lecture_status, status_history, lecture_questions>>
    /\ pending_questions' = <<>>
    /\ UNCHANGED <<lecture_slides, lecture_replies, google_api_key>>
    /\ UNCHANGED notLecture

\* the except block: status "error" and its own commit, which may fail too
HandleError ==
    /\ lecture_pc = "handler"
    /\ \E commit_ok \in BOOLEAN :
          /\ lecture_status' = StatusAfterHandler(lecture_status, commit_ok)
          /\ status_history' =
                IF lecture_status' # lecture_status
                THEN Append(status_history, lecture_status')
                ELSE status_history
          /\ lecture_failures' =
                IF commit_ok THEN lecture_failures
                ELSE lecture_failures \cup {"error_commit_failed"}
    /\ lecture_pc' = "done"
    /\ pending_questions' = <<>>
    /\ UNCHANGED <<lecture_slides, lecture_replies, lecture_questions, google_api_key>>
    /\ UNCHANGED notLecture

TaskStep ==
    TaskStart \/ ExtractContent \/ GenerateQuestions \/ CompleteProcessing \/ HandleError

(***************************************************************************)
(* Claims about the lecture's status                                       *)
(***************************************************************************)
IsPrefix(s, t) == Len(s) <= Len(t) /\ SubSeq(t, 1, Len(s)) = s

TerminalStatuses == {"completed", "error"}

\* the lecture exists: the upload request has returned with its id
Uploaded == lecture_pc \notin {"idle", "rejected", "upload_failed"}

StatusTracksTask ==
    /\ Uploaded => lecture_status = status_history[Len(status_history)]
    /\ lecture_pc = "queued" => lecture_status = "uploaded"
    /\ lecture_pc \in {"extract", "generate", "complete"} => lecture_status = "processing"
    /\ lecture_status \in TerminalStatuses => lecture_pc = "done"

StatusUnrecordable ==
    \/ "query_failed" \in lecture_failures
    \/ "error_commit_failed" \in lecture_failures

SomeReplyFailed ==
    \E k \in 1..Len(lecture_replies) : lecture_replies[k].label # "success"

SuccessfulReplies ==
    Cardinality({k \in 1..Len(lecture_replies) : lecture_replies[k].label = "success"})

AllFields == RequiredFields \cup {"keywords", "choices"}

\* replies whose span is an object (parsing or not) with any set of keys, or
\* an array holding any set of the field names; and replies without a span
ParseReplies ==
    {TextReply("object", content, Payload(parses, fields, "essay", "easy")) :
        content \in {<<"{", "}">>, <<"F", "J", "{", "}", "F">>, <<"J", "_">>},
        parses \in BOOLEAN, fields \in SUBSET AllFields}
    \cup {TextReply("array", <<"F", "J", "J", "F">>, ArrayPayload(elements)) :
            elements \in SUBSET AllFields}

ParseStart ==
    /\ parse_reply \in ParseReplies
    /\ parse_result = NoData
    /\ parse_pc = "call"

ParseResponse ==
    /\ parse_pc = "call"
    /\ parse_result' = _parse_response(parse_reply)
    /\ parse_pc' = "returned"
    /\ UNCHANGED parse_reply
    /\ UNCHANGED notParse

\* the span exists and json.loads accepts it
SpanParsed ==
    LET extracted == _extract_json_from_response(parse_reply.content)
    IN  extracted.some /\ extracted.val # <<>> /\ parse_reply.payload.parses

(***************************************************************************)
(* C11: _parse_response returns a payload only when question,              *)
(* question_type, difficulty, correct_answer and explanation are all       *)
(* present in the parsed value; with any of them missing it returns        *)
(* nothing; the payload returned is the whole parsed value, and when       *)
(* keywords was absent from it the payload has keywords set to the empty   *)
(* list.                                                                   *)
(***************************************************************************)
C11_AllFiveOrNothing ==
    parse_pc = "returned" =>
        LET payload == parse_reply.payload
            missing == RequiredFields \ payload.fields
        IN  /\ parse_result.some => (SpanParsed /\ missing = {})
            /\ missing # {} => parse_result = NoData
            /\ parse_result.some =>
                  /\ parse_result.fields = payload.fields \cup {"keywords"}
                  /\ parse_result.keywords =
                        (IF "keywords" \in payload.fields THEN "given" ELSE "empty")
            /\ (SpanParsed /\ missing = {} /\ payload.kind = "object")
                  => parse_result.some

\* an object with the five fields and no keywords: returned, keywords empty
C11_Witness ==
    /\ parse_pc = "returned"
    /\ parse_reply.payload.kind = "object"
    /\ parse_reply.payload.fields = RequiredFields
    /\ parse_result.some
    /\ parse_result.keywords = "empty"

(***************************************************************************)
(* The brace scan on replies with string values: "Q" is a double quote     *)
(***************************************************************************)
BraceTokens == {"{", "}", "Q", "J"}

\* raw replies, and short ones wrapped in a generic fence
BraceReplies ==
    LET raw == UNION {[1..n -> BraceTokens] : n \in 0..MaxBraceLen}
    IN  raw \cup {<<"F">> \o r \o <<"F">> : r \in {x \in raw : Len(x) <= 2}}

BraceStart ==
    /\ response_content \in BraceReplies
    /\ json_content = NoneStr
    /\ extract_pc = "call"

QuotesBefore(s, k) == Cardinality({j \in 1..(k - 1) : s[j] = "Q"})

\* position k lies inside a string value
InString(s, k) == s[k] # "Q" /\ QuotesBefore(s, k) % 2 = 1

\* the braces of a..b that are not inside a string value
OuterDepth(s, a, b) ==
    Cardinality({k \in a..b : s[k] = "{" /\ ~InString(s, k)})
        - Cardinality({k \in a..b : s[k] = "}" /\ ~InString(s, k)})

\* the closing brace of the object opened at the first '{', strings skipped
OwnClose(s) ==
    LET first == Find(s, "{", 1)
        closes == {k \in first..Len(s) :
                     /\ s[k] = "}" /\ ~InString(s, k)
                     /\ OuterDepth(s, first, k) = 0}
    IN  IF first = 0 \/ closes = {} THEN 0
        ELSE CHOOSE k \in closes : \A j \in closes : k <= j

\* every string value is closed, and its braces are nested pairs
StringsNest(s) ==
    /\ Cardinality({j \in 1..Len(s) : s[j] = "Q"}) % 2 = 0
    /\ \A p, q \in 1..Len(s) :
          (/\ p < q /\ s[p] = "Q" /\ s[q] = "Q"
           /\ QuotesBefore(s, p) % 2 = 0
           /\ \A j \in (p + 1)..(q - 1) : s[j] # "Q")
          => /\ Depth(s, p, q) = 0
             /\ \A j \in p..q : Depth(s, p, j) >= 0

BulletLists == UNION {[1..n -> {3}] : n \in 0..MaxBullets}

GateRecords ==
    [slide_number : {1}, title : {0}, content : 0..MaxTextLen,
     bullet_points : BulletLists, full_text : 0..MaxTextLen]

DerivedRecords ==
    {to_dict(SlideContent(1, title, content, bullet_points)) :
        title \in {0, 5}, content \in 0..MaxTextLen, bullet_points \in BulletLists}

GateStart ==
    /\ gate_derived \in BOOLEAN
    /\ gate_record \in (IF gate_derived THEN DerivedRecords ELSE GateRecords)
    /\ gate_result = FALSE
    /\ gate_pc = "call"

HasSufficientContent ==
    /\ gate_pc = "call"
    /\ gate_result' = _has_sufficient_content(gate_record)
    /\ gate_pc' = "returned"
    /\ UNCHANGED <<gate_record, gate_derived>>
    /\ UNCHANGED notGate

(***************************************************************************)
(* C13: _has_sufficient_content is true if and only if the full text has   *)
(* at least 50 characters, or the content has at least 50 characters, or   *)
(* there are at least 2 bullet points.                                     *)
(***************************************************************************)
C13_GateIff ==
    gate_pc = "returned" =>
        (gate_result <=> (\/ gate_record.full_text >= 50
                          \/ gate_record.content >= 50
                          \/ Len(gate_record.bullet_points) >= 2))

\* a record that passes on its content alone, at the boundary
C13_Witness ==
    /\ gate_pc = "returned"
    /\ gate_record.content = 50
    /\ gate_record.full_text = 49
    /\ Len(gate_record.bullet_points) = 1
    /\ gate_result

(***************************************************************************)
(* C15 as stated: for a record made by to_dict with fewer than 2 bullet    *)
(* points the gate is true when the content has exactly 50 characters and  *)
(* false when it has 49.                                                   *)
(***************************************************************************)
C15_AsStated ==
    (gate_pc = "returned" /\ gate_derived /\ Len(gate_record.bullet_points) < 2) =>
        /\ gate_record.content = 50 => gate_result
        /\ gate_record.content = 49 => ~gate_result

(***************************************************************************)
(* C15 amended: the gate is true for a record whose content has exactly 50 *)
(* characters; for a record with 49 characters of content and fewer than 2 *)
(* bullet points it is false only if the record's full text is shorter     *)
(* than 50, which the full text made by to_dict never is: that text is at  *)
(* least "Content: " and the content, so a record made by to_dict with 49  *)
(* characters of content passes, and one without title and bullet points   *)
(* fails exactly when its content has 40 characters or fewer.              *)
(***************************************************************************)
C15_DerivedBoundary ==
    (gate_pc = "returned" /\ Len(gate_record.bullet_points) < 2) =>
        /\ gate_record.content = 50 => gate_result
        /\ gate_record.content = 49 =>
              (gate_result <=> gate_record.full_text >= 50)
        /\ gate_derived =>
              /\ gate_record.content > 0 =>
                    gate_record.full_text >= 9 + gate_record.content
              /\ gate_record.content = 49 => gate_result
              /\ (gate_record.title = 0 /\ gate_record.bullet_points = <<>>) =>
                    (gate_result <=> gate_record.content >= 41)

\* a record made by to_dict with 49 characters of content passes the gate
C15_Witness ==
    /\ gate_pc = "returned"
    /\ gate_derived
    /\ gate_record.content = 49
    /\ gate_record.title = 0
    /\ gate_record.bullet_points = <<>>
    /\ gate_record.full_text = 58
    /\ gate_result

(***************************************************************************)
(* generate_questions_for_multiple_slides, one slide per step, next to     *)
(* generate_comprehensive_qa on the same slides                            *)
(***************************************************************************)
\* a plausible slip: the gate is not consulted
BatchUnitsUngated(slide_content) == UnitsOf(DefaultDist)

\* the LLM calls the loop makes for one slide: none if the gate is closed
BatchUnits(slide_content) ==
    IF _has_sufficient_content(slide_content) THEN UnitsOf(DefaultDist) ELSE <<>>

BatchStart ==
    /\ batch_slides = qa_input.slides
    /\ batch_i = 1
    /\ batch_calls = <<>>
    /\ batch_sets = <<>>
    /\ batch_pc = "loop"

\* one iteration of the loop over slides_content
BatchProcessSlide ==
    /\ batch_pc = "loop"
    /\ batch_i <= Len(batch_slides)
    /\ LET slide_content == batch_slides[batch_i]
           units == BatchUnits(slide_content)
       IN  \E replies \in [1..Len(units) -> QAReplies] :
              LET qa_set == QuestionsFor(units, replies)
              IN  /\ ~qa_set.raised
                  /\ batch_calls' = batch_calls \o
                        [k \in 1..Len(units) |->
                            [slide_number |-> slide_content.slide_number,
                             tier |-> units[k]]]
                  /\ batch_sets' =
                        IF units # <<>>
                        THEN Append(batch_sets,
                                    [slide_number |-> slide_content.slide_number,
                                     questions |-> Len(qa_set.questions)])
                        ELSE batch_sets
    /\ batch_i' = batch_i + 1
    /\ UNCHANGED <<batch_slides, batch_pc>>
    /\ UNCHANGED notBatch

BatchReturn ==
    /\ batch_pc = "loop"
    /\ batch_i > Len(batch_slides)
    /\ batch_pc' = "returned"
    /\ UNCHANGED <<batch_slides, batch_i, batch_calls, batch_sets>>
    /\ UNCHANGED notBatch

\* the slide numbers of the deck that pass the gate, in input order
EligibleInOrder ==
    LET passing == SelectSeq(qa_input.slides,
                             LAMBDA r : \/ r.full_text >= 50
                                        \/ r.content >= 50
                                        \/ Len(r.bullet_points) >= 2)
    IN  [k \in 1..Len(passing) |-> passing[k].slide_number]

RECURSIVE SumQuestions(_)
SumQuestions(plan) ==
    IF plan = <<>> THEN 0 ELSE Head(plan).slide_questions + SumQuestions(Tail(plan))

(***************************************************************************)
(* C14: a slide that fails the content gate never reaches the generator.   *)
(* In generate_questions_for_multiple_slides no LLM call and no set is     *)
(* made for it; in generate_comprehensive_qa no request and no set is made *)
(* for it and the questions are divided among the passing slides only, so  *)
(* their shares add up to the total.                                       *)
(***************************************************************************)
C14_GateKeepsSlidesOut ==
    /\ \A k \in 1..Len(batch_calls) : batch_calls[k].slide_number \in EligibleNumbers
    /\ \A k \in 1..Len(batch_sets) : batch_sets[k].slide_number \in EligibleNumbers
    /\ batch_pc = "returned" =>
          /\ [k \in 1..Len(batch_sets) |-> batch_sets[k].slide_number] = EligibleInOrder
          /\ Len(batch_calls) = 2 * Len(EligibleInOrder)
    /\ \A k \in 1..Len(qa_plan) : qa_plan[k].slide_number \in EligibleNumbers
    /\ SetNumbers \subseteq EligibleNumbers
    /\ \A k \in 1..Len(qa_plan) :
          qa_plan[k].slide_questions = Quota(k - 1, Len(EligibleInOrder))
    /\ qa_pc = "returned" =>
          /\ qa_sets = EligibleInOrder
          /\ EligibleInOrder # <<>> => SumQuestions(qa_plan) = qa_input.total_questions

\* both generators have returned on a deck whose second slide fails the gate
C14_Witness ==
    /\ batch_pc = "returned"
    /\ qa_pc = "returned"
    /\ Len(qa_input.slides) = 3
    /\ EligibleInOrder = <<1, 3>>
    /\ qa_input.total_questions = 3
    /\ Len(batch_calls) = 4
    /\ qa_sets = <<1, 3>>

\* the slides of the lecture that pass the content gate, in input order
EligibleLectureSlides ==
    SelectSeq([k \in 1..Len(lecture_slides) |-> to_dict(lecture_slides[k])],
              LAMBDA r : \/ r.full_text >= 50
                         \/ r.content >= 50
                         \/ Len(r.bullet_points) >= 2)

\* slides for which the batch called the LLM: two calls for each
SlidesGivenToGeneration == Len(lecture_replies) \div 2

(***************************************************************************)
(* C16 as stated: in the upload pipeline the cap keeps the first           *)
(* max_slides_for_qa slides of the sequence of slides passing the content  *)
(* gate: the questions stored come from those slides, and whenever at      *)
(* least max_slides_for_qa slides pass the gate exactly max_slides_for_qa  *)
(* slides are given to question generation.                                *)
(***************************************************************************)
C16_CapOnEligibleSlides ==
    (lecture_pc = "complete" /\ google_api_key) =>
        LET kept == FirstSlides(EligibleLectureSlides, max_slides_for_qa)
        IN  /\ Len(EligibleLectureSlides) >= max_slides_for_qa =>
                  SlidesGivenToGeneration = max_slides_for_qa
            /\ \A k \in 1..Len(pending_questions) :
                  \E j \in 1..Len(kept) :
                      kept[j].slide_number = pending_questions[k].slide_number

(***************************************************************************)
(* _evaluate_answer on its own                                             *)
(***************************************************************************)
EvalChars == {"a", "A", "b", " "}

\* short responses, and two long ones of 50 and 49 characters
EvalResponses ==
    UNION {[1..n -> EvalChars] : n \in 0..MaxAnswerLen}
        \cup {<<"W", "a", "a">>, <<"W", "a">>}

\* two answers with text and one that is blank
EvalCorrectAnswers == {<<"a">>, <<" ", "A", "b">>, <<" ">>}

\* i keywords "a", then j keywords "B", then possibly the keyword "ab"
KeywordLists ==
    {Repeat(<<"a">>, i) \o Repeat(<<"B">>, j) \o tail :
        i \in 0..MaxKeywords, j \in 0..MaxKeywords, tail \in {<<>>, << <<"a", "b">> >>}}
    \cap UNION {[1..n -> {<<"a">>, <<"B">>, <<"a", "b">>}] : n \in 0..MaxKeywords}

EvalStart ==
    /\ eval_question \in {Question(t, c, kws) :
                            t \in QuestionTypes, c \in EvalCorrectAnswers,
                            kws \in KeywordLists}
    /\ eval_response \in EvalResponses
    /\ eval_result = FALSE
    /\ eval_pc = "call"

EvaluateAnswer ==
    /\ eval_pc = "call"
    /\ eval_result' = _evaluate_answer(eval_question, eval_response)
    /\ eval_pc' = "returned"
    /\ UNCHANGED <<eval_question, eval_response>>
    /\ UNCHANGED notEval

(***************************************************************************)
(* Reference notions for answers, stated on positions                      *)
(***************************************************************************)
\* s without its surrounding whitespace
Core(s) ==
    LET inked == {k \in 1..Len(s) : s[k] # " "}
    IN  IF inked = {} THEN <<>>
        ELSE SubSeq(s, CHOOSE k \in inked : \A j \in inked : k <= j,
                       CHOOSE k \in inked : \A j \in inked : k >= j)

SameLetter(c, d) ==
    \/ c = d
    \/ {c, d} = {"a", "A"}
    \/ {c, d} = {"b", "B"}

EqualIgnoringCase(x, y) ==
    Len(x) = Len(y) /\ \A k \in 1..Len(x) : SameLetter(x[k], y[k])

\* needle occurs in hay, case ignored
OccursIn(needle, hay) ==
    \E k \in 0..(Len(hay) - Len(needle)) :
        EqualIgnoringCase(needle, SubSeq(hay, k + 1, k + Len(needle)))

\* keywords of the question (counted as listed) that occur in the response
MatchedKeywords ==
    Cardinality({k \in 1..Len(eval_question.keywords) :
                    OccursIn(eval_question.keywords[k], eval_response)})

KeywordCount == Len(eval_question.keywords)

Evaluated(types) == eval_pc = "returned" /\ eval_question.question_type \in types

(***************************************************************************)
(* C17: for multiple_choice and single_choice questions the answer is      *)
(* correct if and only if the response and correct_answer are equal after  *)
(* trimming surrounding whitespace and ignoring case; the keywords play no *)
(* part.                                                                   *)
(***************************************************************************)
C17_ChoiceExactMatch ==
    Evaluated({"multiple_choice", "single_choice"}) =>
        /\ eval_result <=>
              EqualIgnoringCase(Core(eval_response), Core(eval_question.correct_answer))
        /\ eval_result =
              _evaluate_answer([eval_question EXCEPT !.keywords = <<>>], eval_response)

\* " aB " against " Ab" on a question whose keywords the response lacks
C17_Witness ==
    /\ Evaluated({"single_choice"})
    /\ eval_question.correct_answer = <<" ", "A", "b">>
    /\ eval_response = <<"a", "b", " ">>
    /\ eval_question.keywords = << <<"B">>, <<"B">>, <<"B">> >>
    /\ eval_result

(***************************************************************************)
(* C18: for a short_answer question with keywords the answer is correct if *)
(* and only if the keywords occurring in the response, case ignored, are   *)
(* at least half of the keywords (2 * matches >= len): 1 of 2 passes, 1 of *)
(* 3 fails, 0 of any fails.                                                *)
(***************************************************************************)
C18_HalfOfKeywords ==
    (Evaluated({"short_answer"}) /\ KeywordCount > 0) =>
        /\ eval_result <=> (2 * MatchedKeywords >= KeywordCount)
        /\ (MatchedKeywords = 1 /\ KeywordCount = 2) => eval_result
        /\ (MatchedKeywords = 1 /\ KeywordCount = 3) => ~eval_result
        /\ MatchedKeywords = 0 => ~eval_result

\* one keyword of two, in another case than the response's
C18_Witness ==
    /\ Evaluated({"short_answer"})
    /\ eval_question.keywords = << <<"a">>, <<"B">> >>
    /\ eval_response = <<" ", "b", " ">>
    /\ MatchedKeywords = 1
    /\ eval_result

(***************************************************************************)
(* C19: for a short_answer question without keywords the answer is correct *)
(* if and only if the trimmed, lower-cased correct answer is a substring   *)
(* of the trimmed, lower-cased response, or the response of the correct    *)
(* answer.                                                                 *)
(***************************************************************************)
C19_EitherContainsOther ==
    (Evaluated({"short_answer"}) /\ KeywordCount = 0) =>
        (eval_result <=>
            \/ OccursIn(Core(eval_question.correct_answer), Core(eval_response))
            \/ OccursIn(Core(eval_response), Core(eval_question.correct_answer)))

\* the response "B" is a part of the correct answer "Ab", and not its start
C19_Witness ==
    /\ Evaluated({"short_answer"})
    /\ KeywordCount = 0
    /\ eval_question.correct_answer = <<" ", "A", "b">>
    /\ eval_response = <<" ", "b">>
    /\ eval_result

(***************************************************************************)
(* C29: for a short_answer question without keywords a response that is    *)
(* empty after trimming is evaluated as correct whatever the               *)
(* correct_answer is, and when the correct_answer is empty after trimming  *)
(* every response is evaluated as correct.                                 *)
(***************************************************************************)
C29_BlankTextsAlwaysMatch ==
    (Evaluated({"short_answer"}) /\ KeywordCount = 0) =>
        /\ Core(eval_response) = <<>> => eval_result
        /\ Core(eval_question.correct_answer) = <<>> => eval_result

\* a blank correct answer, and a response with text: correct
C29_Witness ==
    /\ Evaluated({"short_answer"})
    /\ KeywordCount = 0
    /\ eval_question.correct_answer = <<" ">>
    /\ eval_response = <<"b", " ", "A">>
    /\ eval_result

(***************************************************************************)
(* C20: for an essay question with keywords the answer is correct if and   *)
(* only if the keywords occurring in the response are at least 0.3 times   *)
(* the keywords, the boundary included (10 * matches >= 3 * len); the      *)
(* max(1, ...) of the code never changes this.                             *)
(***************************************************************************)
C20_ThirtyPercentInclusive ==
    (Evaluated({"essay"}) /\ KeywordCount > 0) =>
        (eval_result <=> (10 * MatchedKeywords >= 3 * KeywordCount))

\* exactly 3 of 10 keywords occur: on the boundary, and correct
C20_Witness ==
    /\ Evaluated({"essay"})
    /\ KeywordCount = 10
    /\ MatchedKeywords = 3
    /\ eval_result

(***************************************************************************)
(* correct_rate: rounding of the stored percentage                         *)
(***************************************************************************)

\* Python's round(n / d) for n >= 0, d > 0: nearest integer, ties to even
RoundNearest(n, d) ==
    LET q == n \div d
        r == n % d
    IN  IF 2 * r < d THEN q
        ELSE IF 2 * r > d THEN q + 1
        ELSE IF q % 2 = 0 THEN q ELSE q + 1

\* the rows of the question that _update_correct_rate counted in the last
\* successful submission: those stored before it
CountedRows ==
    ResponsesOf(SubSeq(responses_db, 1, Len(responses_db) - 1),
                last_request.question_id)

(***************************************************************************)
(* C21 as stated: the correct_rate stored from correct_count correct       *)
(* responses out of total_count counted responses is                       *)
(* 100 * correct_count / total_count rounded to the nearest integer.       *)
(***************************************************************************)
C21_RateRoundedToNearest ==
    (last_request.status = "ok" /\ CountedRows # <<>>) =>
        questions_db[last_request.question_id].correct_rate
            = SomeRate(RoundNearest(100 * CorrectCount(CountedRows), Len(CountedRows)))

(***************************************************************************)
(* Learning trends of a student (analytics router)                         *)
(*                                                                         *)
(* A StudentResponse is [submitted_at, is_correct, response_time];         *)
(* submitted_at is the position of the response in time (1 = oldest) and   *)
(* response_time 0 stands for a missing (NULL) time.  A correct-rate       *)
(* (correct_count / len(batch)) * 100 is kept as the pair                  *)
(* [correct_count, size]; rates are compared by cross-multiplication,      *)
(* which agrees with the float comparison for every batch of 3 to 5.       *)
(***************************************************************************)

min_trend_responses == 5

recent_window == 20

batch_size == 5

min_batch == 3

trend_margin == 10

TimePatterns == {"untimed", "timed", "mixed"}

ResponseTime(pattern, t) ==
    IF pattern = "untimed" THEN 0
    ELSE IF pattern = "timed" THEN 10 + (t % 2)
    ELSE IF t % 2 = 0 THEN 0 ELSE 15

\* is_correct is b up to s1, ~b up to s2, b afterwards
StudentResponse(t, s1, s2, b, pattern) ==
    [submitted_at |-> t,
     is_correct |-> IF t <= s1 \/ t > s2 THEN b ELSE ~b,
     response_time |-> ResponseTime(pattern, t)]

\* .order_by(StudentResponse.submitted_at.desc()).all()
StudentResponsesDesc(n, s1, s2, b, pattern) ==
    [i \in 1..n |-> StudentResponse(n + 1 - i, s1, s2, b, pattern)]

\* a plausible slip: the slice is taken from the other end of the list
LastK(responses, k) ==
    SubSeq(responses, Len(responses) - Min2(Len(responses), k) + 1, Len(responses))

\* responses[:k]
FirstK(responses, k) == SubSeq(responses, 1, Min2(Len(responses), k))

InsertBySubmittedAt(sorted, r) ==
    LET k == Cardinality({i \in 1..Len(sorted) :
                             sorted[i].submitted_at <= r.submitted_at})
    IN  SubSeq(sorted, 1, k) \o <<r>> \o SubSeq(sorted, k + 1, Len(sorted))

RECURSIVE SortedBySubmittedAt(_)
\* sorted(..., key=lambda x: x.submitted_at): stable insertion
SortedBySubmittedAt(responses) ==
    IF responses = <<>> THEN <<>>
    ELSE InsertBySubmittedAt(
             SortedBySubmittedAt(SubSeq(responses, 1, Len(responses) - 1)),
             responses[Len(responses)])

RateOfBatch(batch) ==
    [correct_count |-> Len(SelectSeq(batch, LAMBDA r : r.is_correct)),
     size |-> Len(batch)]

RECURSIVE BatchRatesEveryBatch(_, _)
\* a plausible slip: a short final batch is rated too
BatchRatesEveryBatch(recent_responses, i) ==
    IF i >= Len(recent_responses) THEN <<>>
    ELSE <<RateOfBatch(SubSeq(recent_responses, i + 1,
                              Min2(i + batch_size, Len(recent_responses))))>>
             \o BatchRatesEveryBatch(recent_responses, i + batch_size)

RECURSIVE BatchRates(_, _)
\* for i in range(0, len(recent_responses), 5): rates of the batches of
\* at least 3, from offset i on
BatchRates(recent_responses, i) ==
    IF i >= Len(recent_responses) THEN <<>>
    ELSE LET batch == SubSeq(recent_responses, i + 1,
                             Min2(i + batch_size, Len(recent_responses)))
             rest == BatchRates(recent_responses, i + batch_size)
         IN  IF Len(batch) >= min_batch THEN <<RateOfBatch(batch)>> \o rest
             ELSE rest

\* a > b + margin on the percentages (c / size) * 100
RateExceeds(a, b, margin) ==
    100 * a.correct_count * b.size
        > 100 * b.correct_count * a.size + margin * a.size * b.size

\* a < b - margin
RateBelow(a, b, margin) ==
    100 * a.correct_count * b.size + margin * a.size * b.size
        < 100 * b.correct_count * a.size

PerformanceTrend(correct_rates) ==
    IF Len(correct_rates) >= 2
    THEN IF RateExceeds(correct_rates[Len(correct_rates)], correct_rates[1], trend_margin)
         THEN "Improving"
         ELSE IF RateBelow(correct_rates[Len(correct_rates)], correct_rates[1], trend_margin)
         THEN "Declining"
         ELSE "Stable"
    ELSE "Stable"

NoTime == [some |-> FALSE, val |-> 0]

\* round(n / d, 1) in tenths: the nearest tenth (the response times above
\* give no average that lies half-way between two tenths)
RoundTenths(n, d) ==
    LET q == (10 * n) \div d
        r == (10 * n) % d
    IN  IF 2 * r < d THEN q ELSE q + 1

RECURSIVE SumResponseTime(_)
SumResponseTime(rs) ==
    IF rs = <<>> THEN 0 ELSE Head(rs).response_time + SumResponseTime(Tail(rs))

AverageResponseTime(responses) ==
    LET timed_responses == SelectSeq(responses, LAMBDA r : r.response_time # 0)
    IN  IF timed_responses # <<>>
        THEN [some |-> TRUE,
              val |-> RoundTenths(SumResponseTime(timed_responses),
                                  Len(timed_responses))]
        ELSE NoTime

InsufficientData ==
    [kind |-> "insufficient", performance_trend |-> "",
     recent_correct_rates |-> <<>>, average_response_time |-> NoTime]

NoRecords ==
    [kind |-> "no_records", performance_trend |-> "",
     recent_correct_rates |-> <<>>, average_response_time |-> NoTime]

_analyze_learning_trends(responses) ==
    IF Len(responses) < min_trend_responses THEN InsufficientData
    ELSE LET recent_responses ==
                 SortedBySubmittedAt(FirstK(responses, recent_window))
             correct_rates == BatchRates(recent_responses, 0)
         IN  [kind |-> "trend",
              performance_trend |-> PerformanceTrend(correct_rates),
              recent_correct_rates |-> correct_rates,
              average_response_time |-> AverageResponseTime(responses)]

TrendStart ==
    /\ \E n \in 0..MaxTrendResponses, b \in BOOLEAN, pattern \in TimePatterns :
          \E s1 \in 0..n :
             \E s2 \in s1..n :
                trend_responses = StudentResponsesDesc(n, s1, s2, b, pattern)
    /\ trend_result = [kind |-> "none", performance_trend |-> "",
                       recent_correct_rates |-> <<>>,
                       average_response_time |-> NoTime]
    /\ trend_pc = "start"

\* get_student_progress without responses: the message, no analysis
StudentProgressNoRecords ==
    /\ trend_pc = "start"
    /\ trend_responses = <<>>
    /\ trend_result' = NoRecords
    /\ trend_pc' = "done"
    /\ UNCHANGED trend_responses
    /\ UNCHANGED notTrend

\* get_student_progress with responses: learning_trends of the report
AnalyzeLearningTrends ==
    /\ trend_pc = "start"
    /\ trend_responses # <<>>
    /\ trend_result' = _analyze_learning_trends(trend_responses)
    /\ trend_pc' = "done"
    /\ UNCHANGED trend_responses
    /\ UNCHANGED notTrend

(***************************************************************************)
(* Reference reading of the trend rule, over sets of submission times      *)
(***************************************************************************)

\* the most recent `window` submission times of the responses
MostRecent(responses, window) ==
    LET times == {responses[i].submitted_at : i \in 1..Len(responses)}
    IN  {t \in times : Cardinality({u \in times : u > t}) < window}

CorrectAt(responses, t) ==
    \E i \in 1..Len(responses) :
       responses[i].submitted_at = t /\ responses[i].is_correct

\* the trend the rule gives: recent submissions in ascending order, groups
\* of 5 by position, groups of fewer than 3 left out, last against first
ExpectedTrend(responses) ==
    LET recent == MostRecent(responses, recent_window)
        rank == [t \in recent |-> Cardinality({u \in recent : u < t})]
        last_index == (Cardinality(recent) - 1) \div batch_size
        group == [g \in 0..last_index |->
                     {t \in recent : rank[t] \div batch_size = g}]
        kept == {g \in 0..last_index : Cardinality(group[g]) >= min_batch}
        first == CHOOSE g \in kept : \A h \in kept : g <= h
        last == CHOOSE g \in kept : \A h \in kept : h <= g
        correct == [g \in kept |->
                       Cardinality({t \in group[g] : CorrectAt(responses, t)})]
        size == [g \in kept |-> Cardinality(group[g])]
        gain == 100 * correct[last] * size[first] - 100 * correct[first] * size[last]
        margin == trend_margin * size[first] * size[last]
    IN  IF gain > margin THEN "Improving"
        ELSE IF gain < 0 - margin THEN "Declining"
        ELSE "Stable"

(***************************************************************************)
(* C22: with fewer than 5 responses the analysis returns the               *)
(* insufficient-data result; otherwise it groups the 20 most recent        *)
(* responses, in ascending submission order, into consecutive groups of 5  *)
(* (a final partial group counts only with at least 3 members) and reports *)
(* Improving when the last group's correct-rate is more than 10 points     *)
(* above the first group's, Declining when it is more than 10 points       *)
(* below, and Stable otherwise.                                            *)
(***************************************************************************)
C22_TrendFromRecentGroups ==
    (trend_pc = "done" /\ trend_responses # <<>>) =>
        IF Len(trend_responses) < min_trend_responses
        THEN trend_result.kind = "insufficient"
        ELSE /\ trend_result.kind = "trend"
             /\ trend_result.performance_trend = ExpectedTrend(trend_responses)

\* more than 20 responses whose oldest ones would give another trend, and a
\* final group of three that decides
C22_Witness ==
    /\ trend_pc = "done"
    /\ Len(trend_responses) = 22
    /\ trend_result.performance_trend = "Declining"
    /\ Len(trend_result.recent_correct_rates) = 4
    /\ trend_responses[Len(trend_responses)].is_correct = FALSE

(***************************************************************************)
(* C30: with 5, 6 or 7 responses the analysis has a single group rate and  *)
(* reports Stable whatever the correctness of the responses; Improving or  *)
(* Declining is reported only from 8 responses on.                         *)
(***************************************************************************)
C30_SingleGroupIsStable ==
    (trend_pc = "done" /\ trend_result.kind = "trend") =>
        /\ Len(trend_responses) \in 5..7 =>
              /\ Len(trend_result.recent_correct_rates) = 1
              /\ trend_result.performance_trend = "Stable"
        /\ trend_result.performance_trend \in {"Improving", "Declining"} =>
              Len(trend_responses) >= 8

\* seven responses, the five oldest wrong and the two newest right
C30_Witness ==
    /\ trend_pc = "done"
    /\ Len(trend_responses) = 7
    /\ \A i \in 1..7 : trend_responses[i].is_correct = (i <= 2)
    /\ trend_result.performance_trend = "Stable"

(***************************************************************************)
(* Learning recommendations (analytics router)                             *)
(*                                                                         *)
(* A question row is [lecture_id, correct_rate]; a filter of the request   *)
(* that is absent is 0 (None).  What the student query finds is an input   *)
(* of the request: weak_difficulties says whether some tier of the student *)
(* averages below 0.6.  Every query either returns or raises.              *)
(***************************************************************************)

low_rate == 50

general_rate == 70

RecLectureIds == {1, 2}

RecRates == {NoRate, SomeRate(0), SomeRate(40), SomeRate(69), SomeRate(70), SomeRate(71)}

QuestionRowsOfLen(n) ==
    [1..n -> [lecture_id : RecLectureIds, correct_rate : RecRates]]

RECURSIVE SumRates(_)
SumRates(rows) ==
    IF rows = <<>> THEN 0 ELSE Head(rows).correct_rate.val + SumRates(Tail(rows))

\* Question.correct_rate.isnot(None)
KnownRates(rows) == SelectSeq(rows, LAMBDA q : q.correct_rate.some)

\* _get_lecture_recommendations
LectureRecommendations(rows, lecture_id) ==
    LET low_performance_questions ==
            SelectSeq(rows, LAMBDA q : /\ q.lecture_id = lecture_id
                                       /\ q.correct_rate.some
                                       /\ q.correct_rate.val < low_rate)
    IN  IF low_performance_questions # <<>>
        THEN <<[type |-> "content_review", priority |-> "high"]>>
        ELSE <<>>

\* _get_student_recommendations
StudentRecommendations(weak_difficulties) ==
    IF weak_difficulties
    THEN <<[type |-> "skill_improvement", priority |-> "medium"]>>
    ELSE <<>>

\* _get_general_recommendations: func.avg over the known rates is None
\* without rows; "avg_correct_rate and avg_correct_rate < 70" is false for
\* None and for an average of 0
_get_general_recommendations(rows) ==
    LET known == KnownRates(rows)
        avg_is_truthy == known # <<>> /\ SumRates(known) # 0
    IN  IF avg_is_truthy /\ SumRates(known) < general_rate * Len(known)
        THEN <<[type |-> "general_improvement", priority |-> "high"]>>
        ELSE <<>>

Recommendations(rows, request) ==
    (IF request.lecture_id # 0
     THEN LectureRecommendations(rows, request.lecture_id) ELSE <<>>)
    \o (IF request.student_id # 0
        THEN StudentRecommendations(request.weak_difficulties) ELSE <<>>)
    \o (IF request.lecture_id = 0 /\ request.student_id = 0
        THEN _get_general_recommendations(rows) ELSE <<>>)

RecStart ==
    /\ \E n \in 0..MaxRecQuestions : rec_questions \in QuestionRowsOfLen(n)
    /\ \E lecture_id \in {0, 1}, student_id \in {0, 1} :
          \E weak \in (IF student_id = 0 THEN {FALSE} ELSE BOOLEAN) :
             rec_request = [lecture_id |-> lecture_id, student_id |-> student_id,
                            weak_difficulties |-> weak]
    /\ rec_reply = [status |-> "none", recommendations |-> <<>>]
    /\ rec_pc = "start"

\* the request whose queries all return
GetRecommendationsOk ==
    /\ rec_pc = "start"
    /\ rec_reply' = [status |-> "ok",
                     recommendations |-> Recommendations(rec_questions, rec_request)]
    /\ rec_pc' = "done"
    /\ UNCHANGED <<rec_questions, rec_request>>
    /\ UNCHANGED notRec

\* a query raises: logged, HTTP 500
GetRecommendationsFailed ==
    /\ rec_pc = "start"
    /\ rec_reply' = [status |-> "500", recommendations |-> <<>>]
    /\ rec_pc' = "done"
    /\ UNCHANGED <<rec_questions, rec_request>>
    /\ UNCHANGED notRec

get_learning_recommendations == GetRecommendationsOk \/ GetRecommendationsFailed

(***************************************************************************)
(* C23 as stated: without a lecture and without a student filter the reply *)
(* holds the high-priority general-improvement recommendation whenever the *)
(* mean correct_rate of the questions with a known rate is below 70, and   *)
(* does not hold it when the mean is 70 or above.                          *)
(***************************************************************************)
C23_GeneralBelowSeventy ==
    LET known == KnownRates(rec_questions)
        flagged == \E i \in 1..Len(rec_reply.recommendations) :
                      rec_reply.recommendations[i] =
                          [type |-> "general_improvement", priority |-> "high"]
    IN  (/\ rec_pc = "done"
         /\ rec_reply.status = "ok"
         /\ rec_request.lecture_id = 0
         /\ rec_request.student_id = 0
         /\ known # <<>>) =>
            (flagged <=> SumRates(known) < general_rate * Len(known))

(***************************************************************************)
(* DifficultyAdjuster.validate_difficulty_balance                          *)
(*                                                                         *)
(* A question is given by its difficulty: a tier, "no_attribute" for an    *)
(* object without a difficulty (counted as medium), or "not_a_level" for a *)
(* difficulty that is no key of difficulty_counts (not counted).  Ratios   *)
(* and the score are fractions [num, den]; the float score of the code     *)
(* equals 1.0 and reaches 0.7 exactly when the fraction does, for every    *)
(* set of up to 30 questions.                                              *)
(***************************************************************************)

QuestionDifficulties == Tiers \cup {"no_attribute", "not_a_level"}

\* question.difficulty if hasattr(question, 'difficulty') else MEDIUM
DifficultyOf(question) == IF question = "no_attribute" THEN "medium" ELSE question

DifficultyCounts(generated_questions) ==
    [level \in Tiers |->
        Len(SelectSeq(generated_questions, LAMBDA q : DifficultyOf(q) = level))]

Abs(x) == IF x < 0 THEN 0 - x ELSE x

\* ideal_ratios in fifths: 0.4, 0.4, 0.2
IdealFifths == [easy |-> 2, medium |-> 2, hard |-> 1]

\* count / total_questions if total_questions > 0 else 0, as count over
\* the denominator max(total_questions, 1)
RatioDen(total_questions) == IF total_questions > 0 THEN total_questions ELSE 1

\* a plausible slip: the differences keep their sign
BalanceScoreSigned(counts, total_questions) ==
    LET den == RatioDen(total_questions)
        differences == [i \in 1..3 |->
                           5 * counts[TierOrder[i]] - IdealFifths[TierOrder[i]] * den]
        score == 15 * den - 2 * SumSeq(differences)
    IN  [num |-> IF score < 0 THEN 0 ELSE score, den |-> 15 * den]

\* max(0, 1 - (sum(differences) / 3) * 2) with
\* differences[level] = abs(ratio - ideal), times 15 * den
_calculate_balance_score(counts, total_questions) ==
    LET den == RatioDen(total_questions)
        differences == [i \in 1..3 |->
                           Abs(5 * counts[TierOrder[i]] - IdealFifths[TierOrder[i]] * den)]
        score == 15 * den - 2 * SumSeq(differences)
    IN  [num |-> IF score < 0 THEN 0 ELSE score, den |-> 15 * den]

validate_difficulty_balance(generated_questions) ==
    LET total_questions == Len(generated_questions)
        counts == DifficultyCounts(generated_questions)
        balance_score == _calculate_balance_score(counts, total_questions)
    IN  [total_questions |-> total_questions,
         difficulty_counts |-> counts,
         balance_score |-> balance_score,
         is_balanced |-> 10 * balance_score.num >= 7 * balance_score.den]

BalanceStart ==
    /\ \E n \in 0..MaxBalanceQuestions :
          balance_questions \in [1..n -> QuestionDifficulties]
    /\ balance_report = [total_questions |-> 0,
                         difficulty_counts |-> ZeroDist,
                         balance_score |-> [num |-> 0, den |-> 1],
                         is_balanced |-> FALSE]
    /\ balance_pc = "start"

ValidateDifficultyBalance ==
    /\ balance_pc = "start"
    /\ balance_report' = validate_difficulty_balance(balance_questions)
    /\ balance_pc' = "done"
    /\ UNCHANGED balance_questions
    /\ UNCHANGED notBalance

\* how many of the questions carry the difficulty d
Carrying(d) == Cardinality({i \in 1..Len(balance_questions) : balance_questions[i] = d})

\* three times the mean absolute deviation of the tier ratios from
\* 2/5, 2/5, 1/5, times 5 * n for a set of n > 0 questions
ThriceMeanDeviation ==
    LET n == Len(balance_questions)
    IN  Abs(5 * Carrying("easy") - 2 * n)
        + Abs(5 * (Carrying("medium") + Carrying("no_attribute")) - 2 * n)
        + Abs(5 * Carrying("hard") - n)

(***************************************************************************)
(* C24: a set whose tier ratios are exactly 0.4 easy, 0.4 medium, 0.2 hard *)
(* has balance score 1.0; a non-empty set without hard-tier questions      *)
(* scores strictly below 1.0; the score is max(0, 1 - 2 * mean absolute    *)
(* deviation from the ideal ratios) and the set is reported balanced       *)
(* exactly when the score is at least 0.7.                                 *)
(***************************************************************************)
C24_BalanceScore ==
    (balance_pc = "done" /\ balance_questions # <<>>) =>
        LET n == Len(balance_questions)
            score == balance_report.balance_score
            ideal == /\ 5 * Carrying("easy") = 2 * n
                     /\ 5 * (Carrying("medium") + Carrying("no_attribute")) = 2 * n
                     /\ 5 * Carrying("hard") = n
        IN  /\ ideal => score.num = score.den
            /\ Carrying("hard") = 0 => score.num < score.den
            \* score = max(0, 1 - 2 * (ThriceMeanDeviation / (5 n)) / 3)
            /\ IF 2 * ThriceMeanDeviation >= 15 * n
               THEN score.num = 0
               ELSE score.num * 15 * n = (15 * n - 2 * ThriceMeanDeviation) * score.den
            /\ balance_report.is_balanced <=> 10 * score.num >= 7 * score.den

\* the ideal set of five, and it is reported balanced
C24_Witness ==
    /\ balance_pc = "done"
    /\ Len(balance_questions) = 5
    /\ Carrying("easy") = 2 /\ Carrying("medium") = 2 /\ Carrying("hard") = 1
    /\ balance_report.balance_score.num = balance_report.balance_score.den
    /\ balance_report.is_balanced

(***************************************************************************)
(* usage_count against the stored responses                                *)
(***************************************************************************)

UsageMatchesResponses(questions, responses) ==
    \A q \in QuestionIds :
       questions[q].usage_count = Len(ResponsesOf(responses, q))

\* one response of the requested question added, its usage_count one higher
OneResponseAdded ==
    /\ Len(responses_db') = Len(responses_db) + 1
    /\ SubSeq(responses_db', 1, Len(responses_db)) = responses_db
    /\ responses_db'[Len(responses_db')].question_id = last_request'.question_id
    /\ \A q \in QuestionIds :
          questions_db'[q].usage_count =
              questions_db[q].usage_count
                  + (IF q = last_request'.question_id THEN 1 ELSE 0)

NothingStored ==
    /\ responses_db' = responses_db
    /\ \A q \in QuestionIds : questions_db'[q].usage_count = questions_db[q].usage_count

(***************************************************************************)
(* C27 as stated: after any sequence of submit_answer calls a question's   *)
(* usage_count equals the number of its stored responses; a successful     *)
(* submission adds exactly one response and increments usage_count by one, *)
(* and a failed (500) or rejected (404) submission changes neither.        *)
(***************************************************************************)
C27_AsStated ==
    [][/\ UsageMatchesResponses(questions_db', responses_db')
       /\ last_request'.status = "ok" => OneResponseAdded
       /\ last_request'.status \in {"404", "500"} => NothingStored]_vars

(***************************************************************************)
(* C27: after any sequence of submit_answer calls a question's usage_count *)
(* equals the number of its stored responses; a submission whose commit    *)
(* succeeds adds exactly one response and increments usage_count by one,   *)
(* also when the request then fails with 500 at the refresh of the stored  *)
(* row; a submission rejected with 404 or failing before or at its commit  *)
(* changes neither.                                                        *)
(***************************************************************************)
C27_UsageCountsResponses ==
    [][/\ UsageMatchesResponses(questions_db', responses_db')
       /\ last_request'.status = "ok" => last_request'.stored
       /\ last_request'.status = "404" => ~last_request'.stored
       /\ IF last_request'.stored THEN OneResponseAdded ELSE NothingStored]_vars

\* a request that failed after its commit: its row is stored and counted
C27_Witness ==
    /\ last_request.status = "500"
    /\ last_request.stored
    /\ Len(responses_db) = 3
    /\ UsageMatchesResponses(questions_db, responses_db)
    /\ questions_db[last_request.question_id].usage_count >= 2

(***************************************************************************)
(* Uploaded files and the background tasks that read them                  *)
(*                                                                         *)
(* The upload folder maps a filename to the content stored under it, 0 for *)
(* no file; the content of the k-th upload received is k.  A lecture row   *)
(* is [file_path, uploaded, task, extracted, deleted]: the name its file   *)
(* was saved under, the content that came with it, the position of its     *)
(* background task, and what the task read (0 before it has read).  The    *)
(* task's later steps are those of the lecture processing above.           *)
(***************************************************************************)

Filenames == {"a.pptx", "b.pptx"}

\* a file the checks of the request reject: wrong extension or too large
RejectedFilenames == {"notes.txt"}

EmptyFolder == [f \in Filenames |-> 0]

\* file_path = upload_dir / file.filename; open(file_path, "wb"): the file
\* of that name is created or replaced
SaveFile(folder, filename, content) == [folder EXCEPT ![filename] = content]

\* extractor.extract_from_file(Path(file_path)): what is stored under the
\* path when the task reads
ReadFile(folder, file_path) == folder[file_path]

UploadStart ==
    /\ upload_folder = EmptyFolder
    /\ upload_lectures = <<>>
    /\ upload_count = 0

\* the extension or the size check fails: 400, nothing saved
UploadRejected ==
    /\ upload_count < MaxUploads
    /\ \E filename \in RejectedFilenames : upload_count' = upload_count + 1
    /\ UNCHANGED <<upload_folder, upload_lectures>>
    /\ UNCHANGED notUpload

\* the file is saved, the lecture row committed, the task queued
UploadSaved ==
    /\ upload_count < MaxUploads
    /\ \E filename \in Filenames :
          LET content == upload_count + 1
          IN  /\ upload_folder' = SaveFile(upload_folder, filename, content)
              /\ upload_lectures' =
                    Append(upload_lectures,
                           [file_path |-> filename, uploaded |-> content,
                            task |-> "queued", extracted |-> 0, deleted |-> FALSE])
    /\ upload_count' = upload_count + 1
    /\ UNCHANGED notUpload

\* the file is saved and the commit of the lecture row fails: 500, no row,
\* no task, the file stays
UploadCommitFailed ==
    /\ upload_count < MaxUploads
    /\ \E filename \in Filenames :
          upload_folder' = SaveFile(upload_folder, filename, upload_count + 1)
    /\ upload_count' = upload_count + 1
    /\ UNCHANGED upload_lectures
    /\ UNCHANGED notUpload

\* the background task of a lecture reads the file of its path; without
\* the row the task returns, without the file the extraction raises
ProcessLectureFile ==
    /\ \E i \in 1..Len(upload_lectures) :
          /\ upload_lectures[i].task = "queued"
          /\ LET content == ReadFile(upload_folder, upload_lectures[i].file_path)
             IN  upload_lectures' =
                    [upload_lectures EXCEPT
                        ![i].task = IF upload_lectures[i].deleted THEN "returned"
                                    ELSE IF content = 0 THEN "error"
                                    ELSE "extracted",
                        ![i].extracted = IF upload_lectures[i].deleted THEN 0
                                         ELSE content]
    /\ UNCHANGED <<upload_folder, upload_count>>
    /\ UNCHANGED notUpload

\* delete_lecture: the file of the row's path is unlinked, the row deleted
DeleteLecture ==
    /\ \E i \in 1..Len(upload_lectures) :
          /\ ~upload_lectures[i].deleted
          /\ upload_folder' = [upload_folder EXCEPT ![upload_lectures[i].file_path] = 0]
          /\ upload_lectures' = [upload_lectures EXCEPT ![i].deleted = TRUE]
    /\ UNCHANGED upload_count
    /\ UNCHANGED notUpload

(***************************************************************************)
(* C28 as stated: when two uploads with the same filename interleave (the  *)
(* second is saved before the first lecture's background task reads its    *)
(* file), each lecture's task still extracts the content of the file that  *)
(* was uploaded with that lecture.                                         *)
(***************************************************************************)
C28_TaskReadsOwnUpload ==
    \A i \in 1..Len(upload_lectures) :
       upload_lectures[i].task = "extracted" =>
           upload_lectures[i].extracted = upload_lectures[i].uploaded

(***************************************************************************)
(* Specifications                                                          *)
(***************************************************************************)
InitExtract ==
    /\ ExtractStart
    /\ GenIdle /\ QAIdle /\ DistIdle /\ AnswerIdle /\ LectureIdle
    /\ ParseIdle /\ GateIdle /\ BatchIdle /\ EvalIdle
    /\ TrendIdle
    /\ RecIdle
    /\ BalanceIdle
    /\ UploadIdle

NextExtract == ExtractJson

SpecExtract == InitExtract /\ [][NextExtract]_vars

InitGen ==
    /\ GenStart
    /\ ExtractIdle /\ QAIdle /\ DistIdle /\ AnswerIdle /\ LectureIdle
    /\ ParseIdle /\ GateIdle /\ BatchIdle /\ EvalIdle
    /\ TrendIdle
    /\ RecIdle
    /\ BalanceIdle
    /\ UploadIdle

NextGen == GenerateUnit \/ GenReturn

SpecGen == InitGen /\ [][NextGen]_vars

InitQA ==
    /\ QAStartInput
    /\ ExtractIdle /\ GenIdle /\ DistIdle /\ AnswerIdle /\ LectureIdle
    /\ ParseIdle /\ GateIdle /\ BatchIdle /\ EvalIdle
    /\ TrendIdle
    /\ RecIdle
    /\ BalanceIdle
    /\ UploadIdle

NextQA == QAStart \/ QAProcessSlide \/ QAReturn

SpecQA == InitQA /\ [][NextQA]_vars

InitDist ==
    /\ DistStart
    /\ ExtractIdle /\ GenIdle /\ QAIdle /\ AnswerIdle /\ LectureIdle
    /\ ParseIdle /\ GateIdle /\ BatchIdle /\ EvalIdle
    /\ TrendIdle
    /\ RecIdle
    /\ BalanceIdle
    /\ UploadIdle

NextDist == CalculateDistribution

SpecDist == InitDist /\ [][NextDist]_vars

InitAnswer ==
    /\ AnswerStart
    /\ ExtractIdle /\ GenIdle /\ QAIdle /\ DistIdle /\ LectureIdle
    /\ ParseIdle /\ GateIdle /\ BatchIdle /\ EvalIdle
    /\ TrendIdle
    /\ RecIdle
    /\ BalanceIdle
    /\ UploadIdle

NextAnswer == submit_answer

SpecAnswer == InitAnswer /\ [][NextAnswer]_vars

InitLecture ==
    /\ LectureStart
    /\ ExtractIdle /\ GenIdle /\ QAIdle /\ DistIdle /\ AnswerIdle
    /\ ParseIdle /\ GateIdle /\ BatchIdle /\ EvalIdle
    /\ TrendIdle
    /\ RecIdle
    /\ BalanceIdle
    /\ UploadIdle

NextLecture == upload_lecture \/ TaskStep

SpecLecture == InitLecture /\ [][NextLecture]_vars

\* the background task is run once the response is sent, and each of its
\* calls returns or raises
SpecLectureFair == SpecLecture /\ WF_vars(TaskStep)

InitParse ==
    /\ ParseStart
    /\ ExtractIdle /\ GenIdle /\ QAIdle /\ DistIdle /\ AnswerIdle /\ LectureIdle
    /\ GateIdle /\ BatchIdle /\ EvalIdle
    /\ TrendIdle
    /\ RecIdle
    /\ BalanceIdle
    /\ UploadIdle

NextParse == ParseResponse

SpecParse == InitParse /\ [][NextParse]_vars


InitBrace ==
    /\ BraceStart
    /\ GenIdle /\ QAIdle /\ DistIdle /\ AnswerIdle /\ LectureIdle
    /\ ParseIdle /\ GateIdle /\ BatchIdle /\ EvalIdle
    /\ TrendIdle
    /\ RecIdle
    /\ BalanceIdle
    /\ UploadIdle

SpecBrace == InitBrace /\ [][NextExtract]_vars


InitGate ==
    /\ GateStart
    /\ ExtractIdle /\ GenIdle /\ QAIdle /\ DistIdle /\ AnswerIdle /\ LectureIdle
    /\ ParseIdle /\ BatchIdle /\ EvalIdle
    /\ TrendIdle
    /\ RecIdle
    /\ BalanceIdle
    /\ UploadIdle

NextGate == HasSufficientContent

SpecGate == InitGate /\ [][NextGate]_vars


\* both generators given the same bounded deck
InitGated ==
    /\ QAStartInput
    /\ Len(qa_input.slides) <= MaxGatedSlides
    /\ qa_input.total_questions <= MaxGatedQuestions
    /\ BatchStart
    /\ ExtractIdle /\ GenIdle /\ DistIdle /\ AnswerIdle /\ LectureIdle
    /\ ParseIdle /\ GateIdle /\ EvalIdle
    /\ TrendIdle
    /\ RecIdle
    /\ BalanceIdle
    /\ UploadIdle

NextGated == NextQA \/ BatchProcessSlide \/ BatchReturn

SpecGated == InitGated /\ [][NextGated]_vars


InitEval ==
    /\ EvalStart
    /\ ExtractIdle /\ GenIdle /\ QAIdle /\ DistIdle /\ AnswerIdle /\ LectureIdle
    /\ ParseIdle /\ GateIdle /\ BatchIdle
    /\ TrendIdle
    /\ RecIdle
    /\ BalanceIdle
    /\ UploadIdle

NextEval == EvaluateAnswer

SpecEval == InitEval /\ [][NextEval]_vars


InitTrend ==
    /\ TrendStart
    /\ ExtractIdle /\ GenIdle /\ QAIdle /\ DistIdle /\ AnswerIdle
    /\ LectureIdle /\ ParseIdle /\ GateIdle /\ BatchIdle /\ EvalIdle
    /\ RecIdle
    /\ BalanceIdle
    /\ UploadIdle

NextTrend == StudentProgressNoRecords \/ AnalyzeLearningTrends

SpecTrend == InitTrend /\ [][NextTrend]_vars


InitRec ==
    /\ RecStart
    /\ ExtractIdle /\ GenIdle /\ QAIdle /\ DistIdle /\ AnswerIdle
    /\ LectureIdle /\ ParseIdle /\ GateIdle /\ BatchIdle /\ EvalIdle
    /\ TrendIdle
    /\ BalanceIdle
    /\ UploadIdle

NextRec == get_learning_recommendations

SpecRec == InitRec /\ [][NextRec]_vars


InitBalance ==
    /\ BalanceStart
    /\ ExtractIdle /\ GenIdle /\ QAIdle /\ DistIdle /\ AnswerIdle
    /\ LectureIdle /\ ParseIdle /\ GateIdle /\ BatchIdle /\ EvalIdle
    /\ TrendIdle /\ RecIdle
    /\ UploadIdle

NextBalance == ValidateDifficultyBalance

SpecBalance == InitBalance /\ [][NextBalance]_vars


InitUpload ==
    /\ UploadStart
    /\ ExtractIdle /\ GenIdle /\ QAIdle /\ DistIdle /\ AnswerIdle
    /\ LectureIdle /\ ParseIdle /\ GateIdle /\ BatchIdle /\ EvalIdle
    /\ TrendIdle /\ RecIdle /\ BalanceIdle

NextUpload ==
    \/ UploadRejected
    \/ UploadSaved
    \/ UploadCommitFailed
    \/ ProcessLectureFile
    \/ DeleteLecture

SpecUpload == InitUpload /\ [][NextUpload]_vars

=============================================================================
